---- MODULE Spec2Model ----
(***************************************************************************)
(* Front-panel control daemon (robert-wenk/display): serial button-frame   *)
(* decoding, dual-source button event dispatch and port-mapped LED         *)
(* registers, modelled from internal/controller and internal/monitor.      *)
(***************************************************************************)
EXTENDS Integers, Sequences, FiniteSets, TLC

VARIABLES
    wire,             \* bytes the panel controller will still send on the serial link
    messageBuffer,    \* monitorButtons: messageBuffer (unparsed inbound bytes)
    lastButtonState,  \* DisplayController.lastButtonState (map PanelButton -> bool)
    parsed,           \* history: every parseButtonState call, with the events it triggered
    emitted,          \* history: every triggerButtonEvent call / hardware press edge, in order
    lastRead,         \* history: the last non-empty read (buffer before, bytes read, frames decoded)
    dcHandlerSet,     \* DisplayController.buttonHandler != nil
    scHandler,        \* SystemController.buttonHandler as last stored by SetButtonHandler
    scHandlerSeen,    \* the value of that field the other goroutines currently read
    tasks,            \* handler dispatches, in spawn order
    delivered,        \* history: invocations of a registered handler, in invocation order
    lastPressed,      \* MonitorButtonPresses: lastPressed
    crashed,          \* an unrecovered panic has terminated the process
    handlerMode,      \* what an invocation of the registered handler does in this run
    serialTx,         \* history: display commands written to the serial link
    regs,             \* LED hardware registers, by register index
    regSel,           \* register index latched at regPort
    portPerms,        \* LEDController.portPerms
    lastLedCall,      \* history: the last LED call (LEDs named, port read/write done)
    ledReturn,        \* history: what the last LED call returned, and its port accesses
    ledThreads,       \* LED calls in progress on concurrent goroutines, one record each
    samples,          \* history: the raw samples MonitorButtonPresses took, with their edges
    portReturn,       \* history: what the last GetButtonState call returned
    waiter,           \* the WaitForButtonPress call in progress, or its result
    mon,              \* USBCopyMonitor: closed, closeChan, IOPortAccess.acquired, loop alive
    closers,          \* Close calls in progress or returned, one record each
    releases,         \* history: release operations on the hardware handles, in order
    polls,            \* history: serial reads and writes issued after SystemController.Close returned
    sys,              \* history: what NewSystemController returned, and the handles it holds
    link,             \* the serial link: writes in progress, and whether two ever overlapped
    rwlock,           \* USBCopyMonitor.mutex: number of read holders, write holder
    readers,          \* IsButtonPressed calls in progress on concurrent goroutines
    currentMenu,      \* MenuSystem.currentMenu
    menuStack,        \* MenuSystem.menuStack
    selectedIndex,    \* MenuSystem.selectedIndex (0-based, as in the code)
    menuKeys,         \* MenuSystem.menuKeys
    displayingOutput, \* MenuSystem.displayingOutput
    scroller,         \* position of the scrollOutputRoutine goroutine
    lastPress,        \* history: the last button press the menu system handled
    dispCall          \* history: the last display call, its arguments, result and writes

vars == <<wire, messageBuffer, lastButtonState, parsed, emitted, lastRead,
          dcHandlerSet, scHandler, scHandlerSeen, tasks, delivered, lastPressed,
          crashed, handlerMode, serialTx, regs, regSel, portPerms, lastLedCall,
          ledReturn, ledThreads, samples, portReturn, waiter, mon, closers,
          releases, polls, sys, link, rwlock, readers, currentMenu, menuStack,
          selectedIndex, menuKeys, displayingOutput, scroller, lastPress, dispCall>>

serialVars == <<wire, messageBuffer, lastButtonState, parsed, emitted, lastRead>>
busVars == <<dcHandlerSet, scHandler, scHandlerSeen, tasks, delivered, lastPressed,
             crashed, handlerMode, serialTx>>
ledVars == <<regs, regSel, portPerms, lastLedCall, ledReturn, ledThreads>>
portVars == <<samples, portReturn, waiter, mon, closers, releases, polls>>
menuVars == <<currentMenu, menuStack, selectedIndex, menuKeys, displayingOutput,
              scroller, lastPress>>
extVars == <<sys, link, rwlock, readers, menuVars, dispCall>>

(***************************************************************************)
(* Bounds of the model.                                                    *)
(***************************************************************************)
\* messages on the wire in the frame-decoding specification
MaxMsgs == 3
\* bytes one ReadAvailable returns in the frame-decoding specification
MaxRead == 4

(***************************************************************************)
(* Bytes and bits.                                                         *)
(***************************************************************************)
Pow2(i) == 2 ^ i

\* bit i of byte v: (v >> i) & 1
Bit(v, i) == (v \div Pow2(i)) % 2

Drop(s, n) == SubSeq(s, n + 1, Len(s))

(***************************************************************************)
(* Buttons and the wire protocol.                                          *)
(***************************************************************************)
ButtonEnter == "ENTER"
ButtonSelect == "SELECT"
ButtonUSBCopy == "USB_COPY"
Buttons == {ButtonEnter, ButtonSelect, ButtonUSBCopy}

\* bit positions of buttonEnterBit = 0x01, buttonSelectBit = 0x02, buttonUSBCopyBit = 0x04
buttonEnterBit == 0
buttonSelectBit == 1
buttonUSBCopyBit == 2

\* inbound button frame 0x53 0x05 0x00 <state>
FrameHdr0 == 83
FrameHdr1 == 5
FrameHdr2 == 0
FrameLen == 4
\* controller echo 0x4D, consumed as 3 bytes
EchoLead == 77
EchoLen == 3
\* alternate copy indicator 'U' 0x55 / 'C' 0x43, consumed as 2 bytes
CopyLeadU == 85
CopyLeadC == 67
CopyLen == 2
\* buffer reset threshold
MaxBuffer == 16

ButtonFrame(s) == <<FrameHdr0, FrameHdr1, FrameHdr2, s>>

\* the decoded value of each button in a state byte
enterPressed(state) == Bit(state, buttonEnterBit) = 0
selectPressed(state) == Bit(state, buttonSelectBit) = 0
usbCopyPressed(state) == Bit(state, buttonUSBCopyBit) # 0

Decoded(state) ==
    [b \in Buttons |->
        IF b = ButtonEnter THEN enterPressed(state)
        ELSE IF b = ButtonSelect THEN selectPressed(state)
        ELSE usbCopyPressed(state)]

(***************************************************************************)
(* The serial engine. An engine value e carries what one pass of           *)
(* processMessageBuffer reads and writes:                                  *)
(*   buf, lbs (lastButtonState), emitted, tasks, parsed.                   *)
(***************************************************************************)
Event(button, pressed, src) == [button |-> button, pressed |-> pressed, src |-> src]

\* a dispatch: pc is its position, thread the stack it runs on, reg the handler
\* registered when the event was emitted
NewTask(src, button, pressed, thread) ==
    [src |-> src, button |-> button, pressed |-> pressed, pc |-> "ready",
     thread |-> thread, reg |-> scHandler]

\* the handler runs on the calling poller's own stack (no goroutine)
triggerButtonEventInline(e, button, pressed) ==
    [e EXCEPT !.emitted = Append(@, Event(button, pressed, "serial")),
              !.tasks = IF dcHandlerSet
                        THEN Append(@, NewTask("serial", button, pressed, "serial"))
                        ELSE @]

\* keeps the event for a handler registered later
triggerButtonEventKeep(e, button, pressed) ==
    [e EXCEPT !.emitted = Append(@, Event(button, pressed, "serial")),
              !.tasks = Append(@, NewTask("serial", button, pressed, "goroutine"))]

triggerButtonEvent(e, button, pressed) ==
    [e EXCEPT !.emitted = Append(@, Event(button, pressed, "serial")),
              !.tasks = IF dcHandlerSet
                        THEN Append(@, NewTask("serial", button, pressed, "goroutine"))
                        ELSE @]

\* treats a button seen for the first time as unchanged
checkButtonStateChangeNoFirst(lbs, button, pressed) ==
    LET changed == button \in DOMAIN lbs /\ lbs[button] # pressed
    IN [changed |-> changed, lbs |-> (button :> pressed) @@ lbs]

\* records the new value only the first time a button is seen
checkButtonStateChangeNoUpdate(lbs, button, pressed) ==
    LET changed == button \notin DOMAIN lbs \/ lbs[button] # pressed
    IN [changed |-> changed,
        lbs |-> IF button \notin DOMAIN lbs THEN (button :> pressed) @@ lbs ELSE lbs]

checkButtonStateChange(lbs, button, pressed) ==
    LET changed == button \notin DOMAIN lbs \/ lbs[button] # pressed
    IN [changed |-> changed,
        lbs |-> IF changed THEN (button :> pressed) @@ lbs ELSE lbs]

\* one button of parseButtonState: compare, record, trigger
checkAndTrigger(e, button, pressed) ==
    LET c == checkButtonStateChange(e.lbs, button, pressed)
        e1 == [e EXCEPT !.lbs = c.lbs]
    IN IF c.changed THEN triggerButtonEvent(e1, button, pressed) ELSE e1

parseButtonState(e, state) ==
    LET e1 == checkAndTrigger(e, ButtonEnter, enterPressed(state))
        e2 == checkAndTrigger(e1, ButtonSelect, selectPressed(state))
        e3 == checkAndTrigger(e2, ButtonUSBCopy, usbCopyPressed(state))
    IN [e3 EXCEPT !.parsed =
            Append(@, [state |-> state,
                       events |-> SubSeq(e3.emitted, Len(e.emitted) + 1, Len(e3.emitted))])]

RECURSIVE processMessageBuffer(_)
processMessageBuffer(e) ==
    IF Len(e.buf) < FrameLen THEN e
    ELSE IF e.buf[1] = FrameHdr0 /\ e.buf[2] = FrameHdr1 /\ e.buf[3] = FrameHdr2
    THEN processMessageBuffer(
            [parseButtonState(e, e.buf[4]) EXCEPT !.buf = Drop(e.buf, FrameLen)])
    ELSE IF e.buf[1] = EchoLead /\ Len(e.buf) >= EchoLen
    THEN processMessageBuffer([e EXCEPT !.buf = Drop(e.buf, EchoLen)])
    ELSE IF e.buf[1] \in {CopyLeadU, CopyLeadC} /\ Len(e.buf) >= CopyLen
    THEN processMessageBuffer(
            [triggerButtonEvent(triggerButtonEvent(e, ButtonUSBCopy, TRUE),
                                ButtonUSBCopy, FALSE)
                EXCEPT !.buf = Drop(e.buf, CopyLen)])
    ELSE LET rest == Drop(e.buf, 1)
         IN IF Len(rest) > MaxBuffer
            THEN [e EXCEPT !.buf = <<>>]
            ELSE processMessageBuffer([e EXCEPT !.buf = rest])

(***************************************************************************)
(* monitorButtons: the default branch of the polling loop.                 *)
(***************************************************************************)
\* each read replaces the buffer instead of extending it
appendDataOverwrite(buf, data) == data

\* messageBuffer = append(messageBuffer, data...)
appendData(buf, data) == buf \o data

\* the serial poller is not inside a handler call of its own
PollerFree(p) ==
    \A i \in 1..Len(tasks) : tasks[i].thread = p => tasks[i].pc \in {"done", "dropped"}

\* ReadAvailable returned the next n bytes of the wire
ReadData(n) ==
    /\ ~crashed
    /\ PollerFree("serial")
    /\ n \in 1..Len(wire)
    /\ LET data == SubSeq(wire, 1, n)
           e0 == [buf |-> appendData(messageBuffer, data), lbs |-> lastButtonState,
                  emitted |-> emitted, tasks |-> tasks, parsed |-> parsed]
           e1 == processMessageBuffer(e0)
       IN /\ wire' = Drop(wire, n)
          /\ messageBuffer' = e1.buf
          /\ lastButtonState' = e1.lbs
          /\ emitted' = e1.emitted
          /\ tasks' = e1.tasks
          /\ parsed' = e1.parsed
          /\ lastRead' = [pre |-> messageBuffer, data |-> data,
                          calls |-> SubSeq(e1.parsed, Len(parsed) + 1, Len(e1.parsed))]
    /\ UNCHANGED <<dcHandlerSet, scHandler, scHandlerSeen, delivered, lastPressed,
                   crashed, handlerMode, serialTx>>
    /\ UNCHANGED ledVars
    /\ UNCHANGED portVars
    /\ UNCHANGED extVars

\* ReadAvailable returned no data (timeout): sleep 50 ms and poll again
ReadNothing ==
    /\ ~crashed
    /\ PollerFree("serial")
    /\ UNCHANGED vars

(***************************************************************************)
(* Frame decoding specification: the wire carries up to MaxMsgs messages   *)
(* (button frames, echoes, copy indicators, stray bytes) and every read    *)
(* returns between 1 and MaxRead of the bytes not yet read.                *)
(***************************************************************************)
\* state bytes on the wire: nothing held but the copy bit set (0xFF), ENTER held
\* (0xFE), SELECT held with the copy bit clear (0xF9), and 0x07, which differs
\* from 0xFF only in bits no button uses
StateBytes == {255, 254, 249, 7}
\* bytes that arrive outside any message
StrayBytes == {FrameHdr0, EchoLead}

Msgs ==
    {ButtonFrame(s) : s \in StateBytes}
    \cup {<<EchoLead, 6, 1>>, <<CopyLeadU, 1>>}
    \cup {<<b>> : b \in StrayBytes}

RECURSIVE WiresOf(_)
WiresOf(n) ==
    IF n = 0 THEN {<<>>}
    ELSE LET shorter == WiresOf(n - 1)
         IN shorter \cup {w \o m : w \in shorter, m \in Msgs}

EmptyMap == [b \in {} |-> TRUE]

NoRead == [pre |-> <<>>, data |-> <<>>, calls |-> <<>>]
NoLedCall == [leds |-> {}, reg |-> 0, wrote |-> FALSE]
NoLedReturn == [op |-> "none", err |-> FALSE, accesses |-> 0, states |-> EmptyMap]
NoPortReturn == [pressed |-> FALSE, err |-> "nil", taken |-> 0, values |-> <<>>, failAt |-> 0]
NoWait == [pc |-> "idle", timeout |-> 0, elapsed |-> 0, lastSample |-> "none",
           pressed |-> FALSE, err |-> "nil", closedAtReturn |-> FALSE]
\* NewUSBCopyMonitor: closed false, closeChan open, the port acquired, and the
\* polling loop the controller starts on it
MonOpen == [closed |-> FALSE, chanClosed |-> 0, acquired |-> TRUE, running |-> TRUE]
\* sc.usbMonitor == nil: no monitor was created, no polling loop started
NoMonitor == [closed |-> FALSE, chanClosed |-> 0, acquired |-> FALSE, running |-> FALSE]
NoPolls == [reads |-> 0, writes |-> 0]

NoSystem == [built |-> FALSE, err |-> FALSE, handles |-> {}]
NoLink == [writing |-> {}, overlapped |-> FALSE]
NoLock == [readers |-> 0, writer |-> FALSE]
NoPress ==
    [button |-> "none", did |-> "none", wasDisplaying |-> FALSE,
     pre |-> [currentMenu |-> "none", menuStack |-> <<>>, selectedIndex |-> 0,
              menuKeys |-> <<>>],
     key |-> "", tick |-> 0]
NoDispCall == [op |-> "none", text |-> <<>>, row |-> 0, col |-> 0, err |-> "nil",
               writes |-> <<>>]

\* nothing constructed, no serial write or port read in progress, the menu system
\* not created
ExtIdle ==
    /\ sys = NoSystem
    /\ link = NoLink
    /\ rwlock = NoLock
    /\ readers = <<>>
    /\ currentMenu = "none"
    /\ menuStack = <<>>
    /\ selectedIndex = 0
    /\ menuKeys = <<>>
    /\ displayingOutput = FALSE
    /\ scroller = "none"
    /\ lastPress = NoPress
    /\ dispCall = NoDispCall

PortIdle ==
    /\ samples = <<>>
    /\ portReturn = NoPortReturn
    /\ waiter = NoWait
    /\ mon = MonOpen
    /\ closers = <<>>
    /\ releases = <<>>
    /\ polls = NoPolls

BusIdle ==
    /\ dcHandlerSet = FALSE
    /\ scHandler = "nil"
    /\ scHandlerSeen = "nil"
    /\ tasks = <<>>
    /\ delivered = <<>>
    /\ lastPressed = FALSE
    /\ crashed = FALSE
    /\ handlerMode = "return"
    /\ serialTx = <<>>

LedIdle ==
    /\ regs = [r \in {} |-> 0]
    /\ regSel = 0
    /\ portPerms = FALSE
    /\ lastLedCall = NoLedCall
    /\ ledReturn = NoLedReturn
    /\ ledThreads = <<>>

InitFrames ==
    /\ wire \in WiresOf(MaxMsgs)
    /\ messageBuffer = <<>>
    /\ lastButtonState = EmptyMap
    /\ parsed = <<>>
    /\ emitted = <<>>
    /\ lastRead = NoRead
    /\ BusIdle
    /\ LedIdle
    /\ PortIdle
    /\ ExtIdle

NextFrames ==
    \/ \E n \in 1..MaxRead : ReadData(n)
    \/ ReadNothing

SpecFrames == InitFrames /\ [][NextFrames]_vars

(***************************************************************************)
(* Claims about frame decoding (SpecFrames).                               *)
(***************************************************************************)
ButtonOrder == <<ButtonEnter, ButtonSelect, ButtonUSBCopy>>

EventSet(evs) == {evs[i] : i \in 1..Len(evs)}

\* the events a frame s2 must trigger when the frame decoded before it was s1
ChangedEvents(s1, s2) ==
    {Event(b, Decoded(s2)[b], "serial") : b \in {x \in Buttons : Decoded(s1)[x] # Decoded(s2)[x]}}

\* C1: of two consecutively decoded button-state frames s1 then s2, the second
\* triggers one event for exactly the buttons whose decoded value differs between
\* s1 and s2, carrying the new value: 0xFF then 0xFE gives only ENTER pressed,
\* 0xFE then 0xFF only ENTER released, and a repeated state byte gives nothing.
C1_ConsecutiveFramesEmitChanges ==
    \A i \in 2..Len(parsed) :
        LET s1 == parsed[i - 1].state
            s2 == parsed[i].state
            evs == parsed[i].events
        IN /\ EventSet(evs) = ChangedEvents(s1, s2)
           /\ Len(evs) = Cardinality(ChangedEvents(s1, s2))
           /\ (s1 = 255 /\ s2 = 254) => evs = <<Event(ButtonEnter, TRUE, "serial")>>
           /\ (s1 = 254 /\ s2 = 255) => evs = <<Event(ButtonEnter, FALSE, "serial")>>
           /\ s1 = s2 => evs = <<>>

C1_Witness ==
    \E i \in 2..Len(parsed) :
        /\ parsed[i - 1].state = 255
        /\ parsed[i].state = 254
        /\ parsed[i].events = <<Event(ButtonEnter, TRUE, "serial")>>

\* C2 as stated: the first button-state frame decoded yields exactly one button
\* event, and every later frame repeating the same state byte yields none.
C2_FirstFrameOneEvent ==
    /\ Len(parsed) >= 1 => Len(parsed[1].events) = 1
    /\ \A i \in 2..Len(parsed) :
            parsed[i].state = parsed[1].state => parsed[i].events = <<>>

\* C2 amended: the first button-state frame decoded yields exactly three events,
\* one per button in the order ENTER, SELECT, USB_COPY, each carrying its decoded
\* value; a later frame whose state byte equals that of the frame decoded
\* immediately before it yields none.
C2_FirstFrameThreeEvents ==
    /\ Len(parsed) >= 1 =>
            parsed[1].events =
                [j \in 1..3 |->
                    Event(ButtonOrder[j], Decoded(parsed[1].state)[ButtonOrder[j]], "serial")]
    /\ \A i \in 2..Len(parsed) :
            parsed[i].state = parsed[i - 1].state => parsed[i].events = <<>>

C2_Witness ==
    /\ Len(parsed) >= 2
    /\ Len(parsed[1].events) = 3
    /\ parsed[2].state = parsed[1].state
    /\ parsed[2].events = <<>>

IsSplitFrame(first, second) ==
    /\ Len(first) \in 1..3
    /\ Len(first) + Len(second) = FrameLen
    /\ SubSeq(first \o second, 1, 3) = <<FrameHdr0, FrameHdr1, FrameHdr2>>

\* C3: from an empty buffer, a read returning the first k bytes (k = 1, 2, 3) of a
\* button-state frame followed by a read returning its other 4-k bytes makes
\* exactly one parseButtonState call, with that frame's state byte, in the two
\* reads together, and leaves the buffer empty.
C3_SplitFrameDecodedOnce ==
    [][(/\ wire' # wire
        /\ lastRead.pre = <<>>
        /\ IsSplitFrame(lastRead.data, lastRead'.data))
       => (/\ lastRead.calls = <<>>
           /\ Len(lastRead'.calls) = 1
           /\ lastRead'.calls[1].state = lastRead'.data[Len(lastRead'.data)]
           /\ messageBuffer' = <<>>)]_vars

C3_Witness ==
    /\ IsSplitFrame(lastRead.pre, lastRead.data)
    /\ Len(lastRead.pre) = 3
    /\ Len(lastRead.calls) = 1
    /\ lastRead.calls[1].state = lastRead.data[1]
    /\ messageBuffer = <<>>

(***************************************************************************)
(* LED registers. The panel's registers are reached through an index port  *)
(* (regPort) and a data port (valuePort): a byte written to regPort        *)
(* selects the register that valuePort then reads or writes.               *)
(***************************************************************************)
StatusGreen == "StatusGreen"
StatusRed == "StatusRed"
USB == "USB"
Disk1 == "Disk1"
Disk2 == "Disk2"
Disk3 == "Disk3"
Disk4 == "Disk4"
Disk5 == "Disk5"
Disk6 == "Disk6"
PanelLEDs == {StatusGreen, StatusRed, USB, Disk1, Disk2, Disk3, Disk4, Disk5, Disk6}

regPort == 2565
valuePort == 2566

statusLEDPort == [register |-> 145, leds |-> (StatusGreen :> 2) @@ (StatusRed :> 3)]

diskLEDPort ==
    [register |-> 129,
     leds |-> (Disk1 :> 0) @@ (Disk2 :> 1) @@ (Disk3 :> 2) @@ (Disk4 :> 3)
              @@ (Disk5 :> 4) @@ (Disk6 :> 5)]

usbLEDPort == [register |-> 225, leds |-> (USB :> 7)]

diskLEDs == <<Disk1, Disk2, Disk3, Disk4, Disk5, Disk6>>

\* mask |= (1 << bit)
SetBit(v, i) == IF Bit(v, i) = 0 THEN v + Pow2(i) ELSE v
\* mask &^= (1 << bit)
ClearBit(v, i) == IF Bit(v, i) = 1 THEN v - Pow2(i) ELSE v

\* A hardware value hw is [regs, regSel, ok, value, wrote, n]: n counts the port
\* accesses the call made. The k-th port access of a call fails (open of
\* /dev/port refused) when k = fail; a failed access has no effect on the
\* hardware, and after a failure the call makes no further access.
outb(hw, value, port, failed) ==
    IF ~hw.ok THEN hw
    ELSE IF failed THEN [hw EXCEPT !.ok = FALSE, !.n = @ + 1]
    ELSE IF port = regPort THEN [hw EXCEPT !.regSel = value, !.n = @ + 1]
    ELSE IF port = valuePort /\ hw.regSel \in DOMAIN hw.regs
         THEN [hw EXCEPT !.regs[hw.regSel] = value, !.wrote = TRUE, !.n = @ + 1]
    ELSE [hw EXCEPT !.n = @ + 1]

inb(hw, port, failed) ==
    IF ~hw.ok THEN hw
    ELSE IF failed THEN [hw EXCEPT !.ok = FALSE, !.n = @ + 1]
    ELSE IF port = valuePort /\ hw.regSel \in DOMAIN hw.regs
         THEN [hw EXCEPT !.value = hw.regs[hw.regSel], !.n = @ + 1]
    ELSE [hw EXCEPT !.value = 255, !.n = @ + 1]

\* readPort: select the register, read the value (port accesses 1 and 2)
readPort(hw, register, fail) ==
    inb(outb(hw, register, regPort, fail = 1), valuePort, fail = 2)

\* writePort: select the register, write the value (port accesses 3 and 4)
writePort(hw, register, value, fail) ==
    outb(outb(hw, register, regPort, fail = 3), value, valuePort, fail = 4)

\* starts from all LEDs off instead of the register's current value
startMaskAllOff(currentMask) == 255

\* mask := currentMask
startMask(currentMask) == currentMask

\* the loop over newStates: QNAP LEDs are inverted, a set bit means OFF
RECURSIVE applyStates(_, _, _, _)
applyStates(mask, port, newStates, todo) ==
    IF todo = {} THEN mask
    ELSE LET led == CHOOSE x \in todo : TRUE
             next == IF led \in DOMAIN port.leds
                     THEN IF newStates[led]
                          THEN ClearBit(mask, port.leds[led])
                          ELSE SetBit(mask, port.leds[led])
                     ELSE mask
         IN applyStates(next, port, newStates, todo \ {led})

\* writes the register whether or not the mask changed
updatePortLEDsAlwaysWrite(hw, port, newStates, fail) ==
    LET r == readPort(hw, port.register, fail)
        currentMask == r.value
        mask == applyStates(startMask(currentMask), port, newStates, DOMAIN newStates)
    IN IF ~r.ok THEN r
       ELSE writePort(r, port.register, mask, fail)

updatePortLEDs(hw, port, newStates, fail) ==
    LET r == readPort(hw, port.register, fail)
        currentMask == r.value
        mask == applyStates(startMask(currentMask), port, newStates, DOMAIN newStates)
    IN IF ~r.ok THEN r
       ELSE IF mask # currentMask THEN writePort(r, port.register, mask, fail)
       ELSE r

Hardware ==
    [regs |-> regs, regSel |-> regSel, ok |-> TRUE, value |-> 0, wrote |-> FALSE, n |-> 0]

LedCall(leds, register, hw) ==
    [leds |-> leds, reg |-> register, wrote |-> hw.wrote]

\* the port configuration SetLED selects for one LED
portOf(led) ==
    IF led \in DOMAIN statusLEDPort.leds
    THEN [statusLEDPort EXCEPT !.leds = (led :> statusLEDPort.leds[led])]
    ELSE IF led \in DOMAIN diskLEDPort.leds
    THEN [diskLEDPort EXCEPT !.leds = (led :> diskLEDPort.leds[led])]
    ELSE [usbLEDPort EXCEPT !.leds = (led :> usbLEDPort.leds[led])]

\* LEDController.SetLED, as the next hardware value and call record
SetLED(led, on, fail) ==
    IF ~portPerms THEN [hw |-> Hardware, call |-> LedCall({led}, 0, Hardware)]
    ELSE LET port == portOf(led)
             hw == updatePortLEDs(Hardware, port, (led :> on), fail)
         IN [hw |-> hw, call |-> LedCall({led}, port.register, hw)]

\* LEDController.SetDiskLEDs: states maps disk numbers to on/off
SetDiskLEDs(states, fail) ==
    LET valid == {d \in DOMAIN states : d >= 1 /\ d <= 6}
        ledStates == [l \in {diskLEDs[d] : d \in valid} |->
                        states[CHOOSE d \in valid : diskLEDs[d] = l]]
        named == DOMAIN ledStates
    IN IF ~portPerms \/ named = {}
       THEN [hw |-> Hardware, call |-> LedCall(named, 0, Hardware)]
       ELSE LET hw == updatePortLEDs(Hardware, diskLEDPort, ledStates, fail)
            IN [hw |-> hw, call |-> LedCall(named, diskLEDPort.register, hw)]

\* LEDController.SetStatusLED
SetStatusLED(red, green, fail) ==
    IF ~portPerms
    THEN [hw |-> Hardware, call |-> LedCall({StatusRed, StatusGreen}, 0, Hardware)]
    ELSE LET hw == updatePortLEDs(Hardware, statusLEDPort,
                                  (StatusRed :> red) @@ (StatusGreen :> green), fail)
         IN [hw |-> hw,
             call |-> LedCall({StatusRed, StatusGreen}, statusLEDPort.register, hw)]

\* returns success for a disk number outside 1..6
SetDiskActivityNoRange(diskNum, active, fail) ==
    IF diskNum \notin 1..6 THEN [hw |-> Hardware, call |-> LedCall({}, 0, Hardware)]
    ELSE SetLED(diskLEDs[diskNum], active, fail)

\* SystemController.SetDiskActivity with an LED controller present: cases 1 to 6
\* call SetLED on that disk's LED, the default case returns the error
SetDiskActivity(diskNum, active, fail) ==
    IF diskNum \notin 1..6
    THEN [hw |-> [Hardware EXCEPT !.ok = FALSE], call |-> LedCall({}, 0, Hardware)]
    ELSE SetLED(diskLEDs[diskNum], active, fail)

\* the state change of one LED call that runs to its end without interleaving
LedEffect(r) ==
    /\ regs' = r.hw.regs
    /\ regSel' = r.hw.regSel
    /\ lastLedCall' = r.call
    /\ UNCHANGED <<portPerms, ledThreads>>

\* what an LED-setting call returns: an error exactly if a port access failed
LedReturnOf(r) ==
    [op |-> "set", err |-> ~r.hw.ok, accesses |-> r.hw.n, states |-> EmptyMap]

\* the LEDs of one port as read from its register: lit when the bit is 0
statesOf(port, mask) == [l \in DOMAIN port.leds |-> Bit(mask, port.leds[l]) = 0]

\* one of the three reads of GetLEDStates: a failed read adds nothing to the map
\* and the next register is read all the same
readGroup(g, port, failAt) ==
    LET r == readPort([g.hw EXCEPT !.ok = TRUE], port.register, failAt)
    IN [hw |-> r, states |-> IF r.ok THEN statesOf(port, r.value) @@ g.states ELSE g.states]

\* reads the three registers whether or not the port permission is held
GetLEDStatesNoCheck(failGroup, failAt) ==
    LET at(k) == IF failGroup = k THEN failAt ELSE 0
        g0 == [hw |-> Hardware, states |-> EmptyMap]
        g1 == readGroup(g0, statusLEDPort, at(1))
        g2 == readGroup(g1, diskLEDPort, at(2))
    IN readGroup(g2, usbLEDPort, at(3))

\* LEDController.GetLEDStates: the read of register failGroup (0: none) fails at
\* its failAt-th port access
GetLEDStates(failGroup, failAt) ==
    IF ~portPerms THEN [hw |-> Hardware, states |-> EmptyMap]
    ELSE GetLEDStatesNoCheck(failGroup, failAt)

\* no failure, or failure of the k-th port access of the call
FailPoints == 0..4

\* disk numbers SetDiskLEDs is called with (0 is out of range)
DiskNums == {0, 1, 2}
\* LEDs SetLED is called with
LedChoices == {StatusGreen, StatusRed, USB, Disk1, Disk2, Disk6}
\* entries in one SetDiskLEDs map
MaxDiskKeys == 2

DiskMaps ==
    UNION {[ks -> BOOLEAN] : ks \in {s \in SUBSET DiskNums : Cardinality(s) <= MaxDiskKeys}}

CallSetLED(led, on, fail) ==
    /\ LedEffect(SetLED(led, on, fail))
    /\ UNCHANGED ledReturn
    /\ UNCHANGED serialVars
    /\ UNCHANGED busVars
    /\ UNCHANGED portVars
    /\ UNCHANGED extVars

CallSetDiskLEDs(states, fail) ==
    /\ LedEffect(SetDiskLEDs(states, fail))
    /\ UNCHANGED ledReturn
    /\ UNCHANGED serialVars
    /\ UNCHANGED busVars
    /\ UNCHANGED portVars
    /\ UNCHANGED extVars

CallSetStatusLED(red, green, fail) ==
    /\ LedEffect(SetStatusLED(red, green, fail))
    /\ UNCHANGED ledReturn
    /\ UNCHANGED serialVars
    /\ UNCHANGED busVars
    /\ UNCHANGED portVars
    /\ UNCHANGED extVars

\* disk numbers SetDiskActivity is called with
ActivityNums == {-1, 0, 1, 2, 6, 7}

CallSetDiskActivity(diskNum, active, fail) ==
    /\ LET r == SetDiskActivity(diskNum, active, fail)
       IN /\ regs' = r.hw.regs
          /\ regSel' = r.hw.regSel
          /\ lastLedCall' = r.call
          /\ ledReturn' = [op |-> "activity", err |-> ~r.hw.ok, accesses |-> r.hw.n,
                            states |-> EmptyMap, diskNum |-> diskNum, active |-> active]
    /\ UNCHANGED <<portPerms, ledThreads>>
    /\ UNCHANGED serialVars
    /\ UNCHANGED busVars
    /\ UNCHANGED portVars
    /\ UNCHANGED extVars

\* the LED-setting calls with what they return to the caller
ReturnSetLED(led, on, fail) ==
    /\ LedEffect(SetLED(led, on, fail))
    /\ ledReturn' = LedReturnOf(SetLED(led, on, fail))
    /\ UNCHANGED serialVars
    /\ UNCHANGED busVars
    /\ UNCHANGED portVars
    /\ UNCHANGED extVars

ReturnSetDiskLEDs(states, fail) ==
    /\ LedEffect(SetDiskLEDs(states, fail))
    /\ ledReturn' = LedReturnOf(SetDiskLEDs(states, fail))
    /\ UNCHANGED serialVars
    /\ UNCHANGED busVars
    /\ UNCHANGED portVars
    /\ UNCHANGED extVars

ReturnSetStatusLED(red, green, fail) ==
    /\ LedEffect(SetStatusLED(red, green, fail))
    /\ ledReturn' = LedReturnOf(SetStatusLED(red, green, fail))
    /\ UNCHANGED serialVars
    /\ UNCHANGED busVars
    /\ UNCHANGED portVars
    /\ UNCHANGED extVars

CallGetLEDStates(failGroup, failAt) ==
    /\ LET r == GetLEDStates(failGroup, failAt)
       IN /\ regs' = r.hw.regs
          /\ regSel' = r.hw.regSel
          /\ ledReturn' = [op |-> "get", err |-> FALSE, accesses |-> r.hw.n,
                            states |-> r.states]
    /\ lastLedCall' = NoLedCall
    /\ UNCHANGED <<portPerms, ledThreads>>
    /\ UNCHANGED serialVars
    /\ UNCHANGED busVars
    /\ UNCHANGED portVars
    /\ UNCHANGED extVars

LedRegisters == {statusLEDPort.register, diskLEDPort.register, usbLEDPort.register}
\* a register of the same chip that holds no LED
OtherRegister == 0
\* register contents before the first LED call
InitBytes == {255, 90}

SerialIdle ==
    /\ wire = <<>>
    /\ messageBuffer = <<>>
    /\ lastButtonState = EmptyMap
    /\ parsed = <<>>
    /\ emitted = <<>>
    /\ lastRead = NoRead

InitLED ==
    /\ \E b \in InitBytes : regs = [r \in LedRegisters \cup {OtherRegister} |-> b]
    /\ regSel = OtherRegister
    /\ portPerms \in BOOLEAN
    /\ lastLedCall = NoLedCall
    /\ ledReturn = NoLedReturn
    /\ ledThreads = <<>>
    /\ SerialIdle
    /\ BusIdle
    /\ PortIdle
    /\ ExtIdle

NextLED ==
    \/ \E led \in LedChoices, on \in BOOLEAN, fail \in FailPoints : CallSetLED(led, on, fail)
    \/ \E states \in DiskMaps, fail \in FailPoints : CallSetDiskLEDs(states, fail)
    \/ \E red \in BOOLEAN, green \in BOOLEAN, fail \in FailPoints :
            CallSetStatusLED(red, green, fail)

SpecLED == InitLED /\ [][NextLED]_vars

(***************************************************************************)
(* LED interface specification: the same calls with their return values,   *)
(* and the query of the LED states.                                        *)
(***************************************************************************)
NextLedApi ==
    \/ \E led \in LedChoices, on \in BOOLEAN, fail \in FailPoints : ReturnSetLED(led, on, fail)
    \/ \E states \in DiskMaps, fail \in FailPoints : ReturnSetDiskLEDs(states, fail)
    \/ \E red \in BOOLEAN, green \in BOOLEAN, fail \in FailPoints :
            ReturnSetStatusLED(red, green, fail)
    \/ \E failGroup \in 0..3, failAt \in 1..2 : CallGetLEDStates(failGroup, failAt)

SpecLedApi == InitLED /\ [][NextLedApi]_vars

(***************************************************************************)
(* Disk activity specification: the per-disk calls of SystemController on   *)
(* the same registers, with the query of the LED states.                   *)
(***************************************************************************)
NextActivity ==
    \/ \E diskNum \in ActivityNums, active \in BOOLEAN, fail \in FailPoints :
            CallSetDiskActivity(diskNum, active, fail)
    \/ \E failGroup \in 0..3, failAt \in 1..2 : CallGetLEDStates(failGroup, failAt)

SpecActivity == InitLED /\ [][NextActivity]_vars

(***************************************************************************)
(* Handler registration and dispatch.                                      *)
(***************************************************************************)
Handlers == {"h1", "h2"}

\* what an invocation of the registered handler does: it returns, panics or
\* never returns
Outcomes == {"return", "panic", "block"}

\* handlers are registered in this order, each at most once
Rank(h) == IF h = "nil" THEN 0 ELSE IF h = "h1" THEN 1 ELSE 2

Delivery(h, i) ==
    [h |-> h, button |-> tasks[i].button, pressed |-> tasks[i].pressed,
     src |-> tasks[i].src, task |-> i]

\* NewSystemController: display.SetButtonHandler(sc.handleDisplayButtonEvent);
\* the hardware button poller is started right after it
ConstructSystem ==
    /\ ~crashed
    /\ ~dcHandlerSet
    /\ dcHandlerSet' = TRUE
    /\ UNCHANGED <<scHandler, scHandlerSeen, tasks, delivered, lastPressed, crashed,
                   handlerMode, serialTx>>
    /\ UNCHANGED serialVars
    /\ UNCHANGED ledVars
    /\ UNCHANGED portVars
    /\ UNCHANGED extVars

\* SystemController.SetButtonHandler: a plain store, no lock and no atomic
SetButtonHandler(h) ==
    /\ ~crashed
    /\ Rank(h) > Rank(scHandler)
    /\ scHandler' = h
    /\ UNCHANGED <<dcHandlerSet, scHandlerSeen, tasks, delivered, lastPressed, crashed,
                   handlerMode, serialTx>>
    /\ UNCHANGED serialVars
    /\ UNCHANGED ledVars
    /\ UNCHANGED portVars
    /\ UNCHANGED extVars

\* the store becomes visible to the goroutines that read the field unsynchronised
HandlerStoreVisible ==
    /\ ~crashed
    /\ scHandlerSeen # scHandler
    /\ scHandlerSeen' = scHandler
    /\ UNCHANGED <<dcHandlerSet, scHandler, tasks, delivered, lastPressed, crashed,
                   handlerMode, serialTx>>
    /\ UNCHANGED serialVars
    /\ UNCHANGED ledVars
    /\ UNCHANGED portVars
    /\ UNCHANGED extVars

\* the value a goroutine other than the registering one reads from sc.buttonHandler
readButtonHandler == scHandlerSeen

\* the default handling of a display button also runs the USB-copy handling
defaultRunsCopyHandlingForCopy(button, pressed) == pressed /\ button = ButtonUSBCopy

\* handleDisplayButtonEvent without a unified handler: releases are ignored, an
\* ENTER or SELECT press is logged, USB_COPY has no case; whether the event
\* reaches handleUSBCopyButton
defaultRunsCopyHandling(button, pressed) == FALSE

\* DisplayController.ShowCopyStatus: two line writes, the second only if the first
\* succeeded; wfail is the write that fails (0: none)
ShowCopyStatus(tx, status, wfail) ==
    IF wfail = 1 THEN tx
    ELSE IF wfail = 2 THEN Append(tx, [row |-> 0, text |-> "USB Copy"])
    ELSE Append(Append(tx, [row |-> 0, text |-> "USB Copy"]), [row |-> 1, text |-> status])

\* the goroutine of triggerButtonEvent: recover() around dc.buttonHandler, which is
\* handleDisplayButtonEvent: forward to the unified handler, or default handling
\* (a log line for ENTER and SELECT presses)
RunSerialTask(i) ==
    /\ ~crashed
    /\ i \in 1..Len(tasks)
    /\ tasks[i].src = "serial"
    /\ tasks[i].pc = "ready"
    /\ LET h == readButtonHandler
       IN IF h = "nil"
          THEN /\ tasks' = [tasks EXCEPT ![i].pc = "dropped"]
               /\ UNCHANGED delivered
               /\ IF defaultRunsCopyHandling(tasks[i].button, tasks[i].pressed)
                  THEN /\ LedEffect(SetLED(USB, TRUE, 0))
                       /\ serialTx' = ShowCopyStatus(serialTx, "Starting...", 0)
                       /\ UNCHANGED ledReturn
                  ELSE UNCHANGED <<serialTx, regs, regSel, portPerms, lastLedCall, ledReturn, ledThreads>>
          ELSE /\ delivered' = Append(delivered, Delivery(h, i))
               /\ tasks' = [tasks EXCEPT ![i].pc =
                                IF handlerMode = "block" THEN "blocked" ELSE "done"]
               /\ UNCHANGED <<serialTx, regs, regSel, portPerms, lastLedCall, ledReturn, ledThreads>>
    /\ UNCHANGED <<dcHandlerSet, scHandler, scHandlerSeen, lastPressed, crashed,
                   handlerMode>>
    /\ UNCHANGED serialVars
    /\ UNCHANGED portVars
    /\ UNCHANGED extVars

\* the callback is called on the poller's own stack
spawnCallbackInline(ts) == Append(ts, NewTask("hw", ButtonUSBCopy, TRUE, "hw"))

\* go callback()
spawnCallback(ts) == Append(ts, NewTask("hw", ButtonUSBCopy, TRUE, "goroutine"))

\* presses of the hardware button the poller detects
MaxHwPresses == 1
\* handler dispatches in one run
MaxTasks == 3

HwPresses == Cardinality({i \in 1..Len(tasks) : tasks[i].src = "hw"})

\* a tick that starts the callback on every pressed sample
IoTickLevel(pressed) ==
    /\ ~crashed
    /\ dcHandlerSet
    /\ PollerFree("hw")
    /\ IF pressed
       THEN /\ HwPresses < MaxHwPresses + 1
            /\ Len(tasks) < MaxTasks
            /\ tasks' = spawnCallback(tasks)
            /\ emitted' = Append(emitted, Event(ButtonUSBCopy, TRUE, "hw"))
       ELSE UNCHANGED <<tasks, emitted>>
    /\ lastPressed' = pressed
    /\ UNCHANGED <<dcHandlerSet, scHandler, scHandlerSeen, delivered, crashed,
                   handlerMode, serialTx>>
    /\ UNCHANGED <<wire, messageBuffer, lastButtonState, parsed, lastRead>>
    /\ UNCHANGED ledVars
    /\ UNCHANGED portVars
    /\ UNCHANGED extVars

\* MonitorButtonPresses: one tick of the 50 ms ticker, the raw sample being pressed
IoTick(pressed) ==
    /\ ~crashed
    /\ dcHandlerSet
    /\ PollerFree("hw")
    /\ IF pressed /\ ~lastPressed
       THEN /\ HwPresses < MaxHwPresses
            /\ Len(tasks) < MaxTasks
            /\ tasks' = spawnCallback(tasks)
            /\ emitted' = Append(emitted, Event(ButtonUSBCopy, TRUE, "hw"))
       ELSE UNCHANGED <<tasks, emitted>>
    /\ lastPressed' = pressed
    /\ UNCHANGED <<dcHandlerSet, scHandler, scHandlerSeen, delivered, crashed,
                   handlerMode, serialTx>>
    /\ UNCHANGED <<wire, messageBuffer, lastButtonState, parsed, lastRead>>
    /\ UNCHANGED ledVars
    /\ UNCHANGED portVars
    /\ UNCHANGED extVars

\* the callback of monitorUSBCopyButton up to its sleep: with a handler, the press
\* is forwarded; without, handleUSBCopyButton lights the USB LED and shows the
\* copy status. Nothing recovers a panic here.
RunHwPress(i, fail, wfail) ==
    /\ ~crashed
    /\ i \in 1..Len(tasks)
    /\ tasks[i].src = "hw"
    /\ tasks[i].pc = "ready"
    /\ LET h == readButtonHandler
       IN IF h = "nil"
          THEN /\ LedEffect(SetLED(USB, TRUE, fail))
               /\ serialTx' = ShowCopyStatus(serialTx, "Starting...", wfail)
               /\ UNCHANGED ledReturn
               /\ tasks' = [tasks EXCEPT ![i].pc = "dropped"]
               /\ UNCHANGED <<delivered, crashed>>
          ELSE /\ fail = 0
               /\ wfail = 0
               /\ delivered' = Append(delivered, Delivery(h, i))
               /\ tasks' = [tasks EXCEPT ![i].pc =
                                IF handlerMode = "block" THEN "blocked"
                                ELSE IF handlerMode = "panic" THEN "panicked"
                                ELSE "sleep"]
               /\ crashed' = (handlerMode = "panic")
               /\ UNCHANGED <<serialTx, regs, regSel, portPerms, lastLedCall, ledReturn, ledThreads>>
    /\ UNCHANGED <<dcHandlerSet, scHandler, scHandlerSeen, lastPressed, handlerMode>>
    /\ UNCHANGED serialVars
    /\ UNCHANGED portVars
    /\ UNCHANGED extVars

\* the same callback after its 100 ms sleep: the release is forwarded
RunHwRelease(i) ==
    /\ ~crashed
    /\ i \in 1..Len(tasks)
    /\ tasks[i].src = "hw"
    /\ tasks[i].pc = "sleep"
    /\ LET h == readButtonHandler
       IN /\ delivered' = Append(delivered, [Delivery(h, i) EXCEPT !.pressed = FALSE])
          /\ tasks' = [tasks EXCEPT ![i].pc =
                            IF handlerMode = "block" THEN "blocked"
                            ELSE IF handlerMode = "panic" THEN "panicked"
                            ELSE "done"]
          /\ crashed' = (handlerMode = "panic")
    /\ UNCHANGED <<dcHandlerSet, scHandler, scHandlerSeen, lastPressed, handlerMode,
                   serialTx>>
    /\ UNCHANGED serialVars
    /\ UNCHANGED ledVars
    /\ UNCHANGED portVars
    /\ UNCHANGED extVars

\* a read of the serial poller, bounded by the dispatches of one run
BusRead ==
    /\ ReadData(FrameLen)
    /\ Len(tasks') <= MaxTasks

(***************************************************************************)
(* Event bus specification: both pollers, handler registration and the     *)
(* dispatch goroutines. The wire carries up to MaxBusMsgs 4-byte messages, *)
(* each read whole.                                                        *)
(***************************************************************************)
MaxBusMsgs == 2

BusMsgs == {ButtonFrame(255), ButtonFrame(254), <<CopyLeadU, 1, CopyLeadU, 1>>}

RECURSIVE BusWiresOf(_)
BusWiresOf(n) ==
    IF n = 0 THEN {<<>>}
    ELSE LET shorter == BusWiresOf(n - 1)
         IN shorter \cup {w \o m : w \in shorter, m \in BusMsgs}

\* the state byte of the panel at rest; a frame carrying it may have been decoded
\* while the display controller was still being constructed
IdleState == 255

\* port access failures of the default USB-copy handling: none, or /dev/port
\* cannot be opened
BusFailPoints == {0, 1}

\* the LED registers after initializeSystem: green status LED on, the others off
BusInitRegs ==
    [r \in LedRegisters \cup {OtherRegister} |->
        IF r = statusLEDPort.register THEN 251 ELSE 255]

InitBus ==
    /\ wire \in BusWiresOf(MaxBusMsgs)
    /\ messageBuffer = <<>>
    /\ lastButtonState \in {EmptyMap, Decoded(IdleState)}
    /\ parsed = <<>>
    /\ emitted = <<>>
    /\ lastRead = NoRead
    /\ dcHandlerSet = FALSE
    /\ scHandler = "nil"
    /\ scHandlerSeen = "nil"
    /\ tasks = <<>>
    /\ delivered = <<>>
    /\ lastPressed = FALSE
    /\ crashed = FALSE
    /\ handlerMode \in Outcomes
    /\ serialTx = <<>>
    /\ regs = BusInitRegs
    /\ regSel = diskLEDPort.register
    /\ portPerms = TRUE
    /\ lastLedCall = NoLedCall
    /\ ledReturn = NoLedReturn
    /\ ledThreads = <<>>
    /\ PortIdle
    /\ ExtIdle

WriteFails == 0..2

NextBus ==
    \/ ConstructSystem
    \/ \E h \in Handlers : SetButtonHandler(h)
    \/ HandlerStoreVisible
    \/ BusRead
    \/ \E pressed \in BOOLEAN : IoTick(pressed)
    \/ \E i \in 1..Len(tasks) : RunSerialTask(i)
    \/ \E i \in 1..Len(tasks), fail \in BusFailPoints, wfail \in WriteFails :
            RunHwPress(i, fail, wfail)
    \/ \E i \in 1..Len(tasks) : RunHwRelease(i)

SpecBus == InitBus /\ [][NextBus]_vars

(***************************************************************************)
(* The daemon while no handler is ever registered through SetButtonHandler: *)
(* both pollers run and every dispatch takes the default handling.         *)
(***************************************************************************)
InitNoHandler ==
    /\ InitBus
    /\ handlerMode = "return"

NextNoHandler ==
    \/ ConstructSystem
    \/ BusRead
    \/ \E pressed \in BOOLEAN : IoTick(pressed)
    \/ \E i \in 1..Len(tasks) : RunSerialTask(i)
    \/ \E i \in 1..Len(tasks), fail \in BusFailPoints, wfail \in WriteFails :
            RunHwPress(i, fail, wfail)

SpecNoHandler == InitNoHandler /\ [][NextNoHandler]_vars


\* bit i of register r belongs to an LED the call names
NamedBit(call, r, i) ==
    \E led \in call.leds : portOf(led).register = r /\ portOf(led).leds[led] = i

\* LED l is lit: its bit is 0 (inverted logic)
LedOn(l) == Bit(regs[portOf(l).register], portOf(l).leds[l]) = 0

\* C10: an LED call that runs without interleaving changes no register bit other
\* than the bits of the LEDs it names, in the one register it targets: every
\* other bit of that register and every other register keep their value. So
\* Disk1 stays on when Disk2 is turned on, and Disk2 stays on when Disk1 is
\* turned off.
C10_LedCallPreservesOtherBits ==
    [][/\ \A r \in DOMAIN regs : \A i \in 0..7 :
            Bit(regs'[r], i) # Bit(regs[r], i) =>
                (r = lastLedCall'.reg /\ NamedBit(lastLedCall', r, i))
       /\ \A l \in {Disk1, Disk2} :
            (LedOn(l) /\ l \notin lastLedCall'.leds) => LedOn(l)']_vars

C10_Witness ==
    /\ lastLedCall = [leds |-> {Disk1}, reg |-> diskLEDPort.register, wrote |-> TRUE]
    /\ ~LedOn(Disk1)
    /\ LedOn(Disk2)
    /\ Bit(regs[diskLEDPort.register], 6) = 1

(***************************************************************************)
(* Claims about handler registration and dispatch (SpecBus, SpecNoHandler). *)
(***************************************************************************)
IsUsbCopy(d) == d.button = ButtonUSBCopy
IsSerial(d) == d.src = "serial"

\* C4: the registered handler never receives two consecutive USB_COPY events with
\* the same pressed value, whichever source reports them (button-state frame,
\* 0x55/0x43 copy indicator, I/O-port poller).
C4_UsbCopyDeduplicated ==
    LET usb == SelectSeq(delivered, IsUsbCopy)
    IN \A k \in 1..(Len(usb) - 1) : usb[k].pressed # usb[k + 1].pressed

\* C5: the events the serial polling task emits reach the handler in the order
\* of their emission.
C5_SerialDeliveryInOrder ==
    LET ser == SelectSeq(delivered, IsSerial)
    IN \A k \in 1..(Len(ser) - 1) : ser[k].task < ser[k + 1].task

\* C6: a panic of the registered handler never propagates: it terminates
\* neither a polling task nor the process, for serial-path events and for
\* I/O-port-path USB_COPY events alike.
C6_HandlerPanicContained == handlerMode = "panic" => ~crashed

\* C7: neither polling loop waits for a handler invocation to return: with a
\* handler that never returns, whatever invocations are blocked, the serial
\* poller can still poll, read and decode the next frame, and the I/O-port
\* poller can still sample and detect the next edge.
C7_PollersNeverWait ==
    handlerMode = "block" =>
        /\ PollerFree("serial") /\ PollerFree("hw")
        /\ ENABLED ReadNothing
        /\ dcHandlerSet => ENABLED IoTick(FALSE)

C7_Witness ==
    /\ handlerMode = "block"
    /\ \E i, j \in 1..Len(tasks) :
            /\ tasks[i].src = "serial" /\ tasks[i].pc = "blocked"
            /\ tasks[j].src = "hw" /\ tasks[j].pc = "blocked"
    /\ Len(wire) >= FrameLen
    /\ ENABLED ReadNothing
    /\ ENABLED IoTick(FALSE)

NoHwDefaultRun == \A i \in 1..Len(tasks) : tasks[i].src = "hw" => tasks[i].pc = "ready"

\* C8 as stated: while no handler is registered through SetButtonHandler, every
\* button event from either source is dropped: no callback is invoked, nothing
\* is written to the display and no LED changes.
C8_NoHandlerDropsAll ==
    scHandler = "nil" => (delivered = <<>> /\ serialTx = <<>> /\ regs = BusInitRegs)

\* C8 amended: while no handler is registered, no event invokes a callback, and
\* the events of the serial path cause no display write and no LED change; a
\* press detected by the I/O-port poller is not dropped but given the default
\* handling: SetLED(USB, on), which changes at most the USB LED bit, and the
\* copy status lines written to the display.
C8_NoHandlerDefaultHandling ==
    scHandler = "nil" =>
        /\ delivered = <<>>
        /\ NoHwDefaultRun => (serialTx = <<>> /\ regs = BusInitRegs /\ lastLedCall = NoLedCall)
        /\ ~NoHwDefaultRun =>
            /\ lastLedCall.leds = {USB}
            /\ \A r \in DOMAIN regs :
                    regs[r] # BusInitRegs[r] =>
                        (r = usbLEDPort.register /\ regs[r] = ClearBit(BusInitRegs[r], 7))
            /\ \A k \in 1..Len(serialTx) :
                    serialTx[k] \in {[row |-> 0, text |-> "USB Copy"],
                                     [row |-> 1, text |-> "Starting..."]}

C8_Witness ==
    /\ scHandler = "nil"
    /\ \E i, j \in 1..Len(tasks) :
            /\ tasks[i].src = "serial" /\ tasks[i].pc = "dropped" /\ tasks[i].pressed
            /\ tasks[j].src = "hw" /\ tasks[j].pc = "dropped"
    /\ LedOn(USB)
    /\ serialTx = <<[row |-> 0, text |-> "USB Copy"], [row |-> 1, text |-> "Starting..."]>>

\* C9: a later registration replaces the earlier one: an event emitted after
\* SetButtonHandler(h2) has returned, following SetButtonHandler(h1), invokes h2
\* and never h1, and invokes it once.
C9_LaterRegistrationReplaces ==
    /\ \A k \in 1..Len(delivered) :
            tasks[delivered[k].task].reg = "h2" => delivered[k].h = "h2"
    /\ \A k, m \in 1..Len(delivered) :
            (delivered[k].task = delivered[m].task
                /\ delivered[k].pressed = delivered[m].pressed) => k = m

(***************************************************************************)
(* Concurrent LED calls. LEDController holds no lock: a SetLED call running *)
(* on its own goroutine (FlashDiskLED starts one per flash) is four port    *)
(* accesses, and the accesses of different calls interleave freely.         *)
(***************************************************************************)
\* LED calls in flight at once
MaxLedThreads == 2
\* raw samples the polling loop takes in a run
MaxSamples == 3
\* Close calls in a run
MaxClosers == 2
\* longest WaitForButtonPress timeout, in sampling ticks
MaxTimeout == 2
\* serial reads and writes counted after the controller was closed
MaxPolls == 2
\* display lines SetSystemStatus writes in a run
MaxStatusWrites == 2
\* longest text given to WriteTextAt, in bytes
MaxText == 18
\* IsButtonPressed calls in a run of the lock specification
MaxReaders == 2
\* serial writes completed in a run of the link specification
MaxLinkWrites == 3
\* bytes of unrecognized data on the wire of the overflow specification
MaxJunk == 19
\* button frames that follow the leading bytes on a wire of the extraction specification
MaxFrames == 5
\* LEDs lit at once in a run of the LED query specification
MaxLit == 2

\* LEDs the concurrent calls name: two bits of one register and one other register
RaceLeds == {Disk1, Disk2, USB}

\* go func() { sc.SetDiskActivity(diskNum, ...) }: the call is at its first access
StartLedCall(led, on) ==
    /\ portPerms
    /\ Len(ledThreads) < MaxLedThreads
    /\ ledThreads' = Append(ledThreads,
            [led |-> led, on |-> on, pc |-> "selectRead", currentMask |-> 0,
             mask |-> 0, touched |-> {}])
    /\ UNCHANGED <<regs, regSel, portPerms, lastLedCall, ledReturn>>
    /\ UNCHANGED serialVars
    /\ UNCHANGED busVars
    /\ UNCHANGED portVars
    /\ UNCHANGED extVars

\* the next port access of call t: readPort is outb(register, regPort) then
\* inb(valuePort); writePort is outb(register, regPort) then outb(mask, valuePort)
LedStep(t) ==
    /\ t \in 1..Len(ledThreads)
    /\ LET th == ledThreads[t]
           port == portOf(th.led)
       IN \/ /\ th.pc = "selectRead"
             /\ regSel' = outb(Hardware, port.register, regPort, FALSE).regSel
             /\ ledThreads' = [ledThreads EXCEPT ![t].pc = "read"]
             /\ UNCHANGED regs
          \/ /\ th.pc = "read"
             /\ LET currentMask == inb(Hardware, valuePort, FALSE).value
                    mask == applyStates(startMask(currentMask), port,
                                        (th.led :> th.on), {th.led})
                IN ledThreads' = [ledThreads EXCEPT
                        ![t].currentMask = currentMask,
                        ![t].mask = mask,
                        ![t].touched = @ \cup {regSel},
                        ![t].pc = IF mask # currentMask THEN "selectWrite" ELSE "done"]
             /\ UNCHANGED <<regs, regSel>>
          \/ /\ th.pc = "selectWrite"
             /\ regSel' = outb(Hardware, port.register, regPort, FALSE).regSel
             /\ ledThreads' = [ledThreads EXCEPT ![t].pc = "write"]
             /\ UNCHANGED regs
          \/ /\ th.pc = "write"
             /\ regs' = outb(Hardware, th.mask, valuePort, FALSE).regs
             /\ ledThreads' = [ledThreads EXCEPT ![t].touched = @ \cup {regSel},
                                                 ![t].pc = "done"]
             /\ UNCHANGED regSel
    /\ UNCHANGED <<portPerms, lastLedCall, ledReturn>>
    /\ UNCHANGED serialVars
    /\ UNCHANGED busVars
    /\ UNCHANGED portVars
    /\ UNCHANGED extVars

\* the registers as initializeSystem leaves them, no LED call in flight
InitLedRace ==
    /\ regs = BusInitRegs
    /\ regSel = diskLEDPort.register
    /\ portPerms = TRUE
    /\ lastLedCall = NoLedCall
    /\ ledReturn = NoLedReturn
    /\ ledThreads = <<>>
    /\ SerialIdle
    /\ BusIdle
    /\ PortIdle
    /\ ExtIdle

NextLedRace ==
    \/ \E led \in RaceLeds, on \in BOOLEAN : StartLedCall(led, on)
    \/ \E t \in 1..Len(ledThreads) : LedStep(t)

SpecLedRace == InitLedRace /\ [][NextLedRace]_vars

(***************************************************************************)
(* USB copy button port (internal/monitor): raw and debounced reads, the    *)
(* polling loop the controller starts, the blocking wait, and Close.        *)
(***************************************************************************)
\* bytes the button port returns: every other bit set or clear, bit 0 either way
PortBytes == {255, 254, 0, 1}

\* IsButtonPressed under the read lock: a closed monitor reports an error, a
\* failed ReadByte (the port not acquired, or the reader's own error) too, and
\* otherwise the button is pressed when bit 0 is low
IsButtonPressed(m, value, fail) ==
    IF m.closed THEN [pressed |-> FALSE, err |-> "closed"]
    ELSE IF fail \/ ~m.acquired THEN [pressed |-> FALSE, err |-> "read"]
    ELSE [pressed |-> Bit(value, 0) = 0, err |-> "nil"]

sampleCount == 3

\* GetButtonState that trusts its first sample
GetButtonStateFirst(m, values, failAt) ==
    LET s == IsButtonPressed(m, values[1], failAt = 1)
    IN [pressed |-> s.pressed, err |-> s.err, taken |-> 1]

\* the loop of GetButtonState from sample i on (i samples taken so far)
RECURSIVE sampleLoop(_, _, _, _, _)
sampleLoop(m, values, failAt, i, pressedCount) ==
    IF i >= sampleCount
    THEN [pressed |-> pressedCount > sampleCount \div 2, err |-> "nil", taken |-> i]
    ELSE LET s == IsButtonPressed(m, values[i + 1], failAt = i + 1)
         IN IF s.err # "nil"
            THEN [pressed |-> FALSE, err |-> s.err, taken |-> i + 1]
            ELSE sampleLoop(m, values, failAt, i + 1,
                            pressedCount + (IF s.pressed THEN 1 ELSE 0))

GetButtonState(m, values, failAt) == sampleLoop(m, values, failAt, 0, 0)

\* IOPortAccess.Close: nothing when not acquired; a refused ioperm call returns
\* the error and leaves acquired set
IOPortClose(m, relFail) ==
    IF ~m.acquired THEN [m |-> m, released |-> FALSE, err |-> "nil"]
    ELSE IF relFail THEN [m |-> m, released |-> TRUE, err |-> "release"]
    ELSE [m |-> [m EXCEPT !.acquired = FALSE], released |-> TRUE, err |-> "nil"]

\* USBCopyMonitor.Close without the closed flag test
MonitorCloseAgain(m, relFail) ==
    LET io == IOPortClose([m EXCEPT !.closed = TRUE, !.chanClosed = @ + 1], relFail)
    IN [m |-> io.m, released |-> io.released, err |-> io.err]

\* USBCopyMonitor.Close under the write lock
MonitorClose(m, relFail) ==
    IF m.closed THEN [m |-> m, released |-> FALSE, err |-> "nil"]
    ELSE LET io == IOPortClose([m EXCEPT !.closed = TRUE, !.chanClosed = @ + 1], relFail)
         IN [m |-> io.m, released |-> io.released, err |-> io.err]

\* every Close call made so far has returned
AllReturned == \A c \in 1..Len(closers) : closers[c].pc = "done"

\* a Close call on the monitor, start to return
CallMonitorClose(relFail) ==
    /\ Len(closers) < MaxClosers
    /\ LET r == MonitorClose(mon, relFail)
       IN /\ mon' = r.m
          /\ closers' = Append(closers, [obj |-> "monitor", pc |-> "done", err |-> r.err,
                                         first |-> ~mon.closed, alone |-> AllReturned])
          /\ releases' = IF r.released THEN Append(releases, "button") ELSE releases
    /\ UNCHANGED <<samples, portReturn, waiter, polls>>
    /\ UNCHANGED serialVars
    /\ UNCHANGED busVars
    /\ UNCHANGED ledVars
    /\ UNCHANGED extVars

\* one GetButtonState call
CallGetButtonState(values, failAt) ==
    /\ LET r == GetButtonState(mon, values, failAt)
       IN portReturn' = [pressed |-> r.pressed, err |-> r.err, taken |-> r.taken,
                         values |-> values, failAt |-> failAt]
    /\ UNCHANGED <<samples, waiter, mon, closers, releases, polls>>
    /\ UNCHANGED serialVars
    /\ UNCHANGED busVars
    /\ UNCHANGED ledVars
    /\ UNCHANGED extVars

\* one ticker case of MonitorButtonPresses: a single raw sample; a failed sample
\* is skipped, a pressed sample after a released one starts the callback
MonitorTick(value, fail) ==
    /\ mon.running
    /\ Len(samples) < MaxSamples
    /\ LET s == IsButtonPressed(mon, value, fail)
       IN IF s.err # "nil"
          THEN /\ samples' = Append(samples, [value |-> value, pressed |-> FALSE,
                                              err |-> TRUE, edge |-> FALSE,
                                              closed |-> mon.closed])
               /\ UNCHANGED lastPressed
          ELSE /\ samples' = Append(samples, [value |-> value, pressed |-> s.pressed,
                                              err |-> FALSE,
                                              edge |-> s.pressed /\ ~lastPressed,
                                              closed |-> mon.closed])
               /\ lastPressed' = s.pressed
    /\ UNCHANGED <<portReturn, waiter, mon, closers, releases, polls>>
    /\ UNCHANGED serialVars
    /\ UNCHANGED <<dcHandlerSet, scHandler, scHandlerSeen, tasks, delivered, crashed,
                   handlerMode, serialTx>>
    /\ UNCHANGED ledVars
    /\ UNCHANGED extVars

\* the closeChan case of MonitorButtonPresses
MonitorExit ==
    /\ mon.running
    /\ mon.chanClosed > 0
    /\ mon' = [mon EXCEPT !.running = FALSE]
    /\ UNCHANGED <<samples, portReturn, waiter, closers, releases, polls>>
    /\ UNCHANGED serialVars
    /\ UNCHANGED busVars
    /\ UNCHANGED ledVars
    /\ UNCHANGED extVars

InitPort ==
    /\ SerialIdle
    /\ BusIdle
    /\ LedIdle
    /\ PortIdle
    /\ ExtIdle

\* the polling loop on the button port, and Close
NextMonitor ==
    \/ \E value \in PortBytes, fail \in BOOLEAN : MonitorTick(value, fail)
    \/ MonitorExit
    \/ \E relFail \in BOOLEAN : CallMonitorClose(relFail)

SpecMonitor == InitPort /\ [][NextMonitor]_vars

\* debounced reads, and Close
NextDebounce ==
    \/ \E values \in [1..sampleCount -> PortBytes], failAt \in 0..sampleCount :
            CallGetButtonState(values, failAt)
    \/ \E relFail \in BOOLEAN : CallMonitorClose(relFail)

SpecDebounce == InitPort /\ [][NextDebounce]_vars

\* what the ticker case of WaitForButtonPress saw
SampleKind(s) ==
    IF s.err # "nil" THEN "error" ELSE IF s.pressed THEN "pressed" ELSE "released"

\* the ticker case of WaitForButtonPress with the deadline test dropped
waitTickNoDeadline(w, s, e) ==
    IF s.err # "nil"
    THEN [w EXCEPT !.pc = "returned", !.elapsed = e, !.lastSample = SampleKind(s),
                   !.pressed = FALSE, !.err = s.err]
    ELSE [w EXCEPT !.pc = "returned", !.elapsed = e, !.lastSample = SampleKind(s),
                   !.pressed = s.pressed, !.err = "nil"]

\* the ticker case of WaitForButtonPress, e being time.Since(startTime) in ticks
waitTick(w, s, e) ==
    IF s.err # "nil"
    THEN [w EXCEPT !.pc = "returned", !.elapsed = e, !.lastSample = SampleKind(s),
                   !.pressed = FALSE, !.err = s.err]
    ELSE IF s.pressed
    THEN [w EXCEPT !.pc = "returned", !.elapsed = e, !.lastSample = SampleKind(s),
                   !.pressed = TRUE, !.err = "nil"]
    ELSE IF e > w.timeout
    THEN [w EXCEPT !.pc = "returned", !.elapsed = e, !.lastSample = SampleKind(s),
                   !.pressed = FALSE, !.err = "nil"]
    ELSE [w EXCEPT !.elapsed = e, !.lastSample = SampleKind(s)]

\* WaitForButtonPress(timeout) is called: startTime is taken, the ticker started
StartWait(timeout) ==
    /\ waiter.pc \in {"idle", "returned"}
    /\ waiter' = [NoWait EXCEPT !.pc = "waiting", !.timeout = timeout]
    /\ UNCHANGED <<samples, portReturn, mon, closers, releases, polls>>
    /\ UNCHANGED serialVars
    /\ UNCHANGED busVars
    /\ UNCHANGED ledVars
    /\ UNCHANGED extVars

\* case <-ticker.C: one or two tick periods after the previous iteration
WaitTick(value, fail, advance) ==
    /\ waiter.pc = "waiting"
    /\ LET w == waitTick(waiter, IsButtonPressed(mon, value, fail), waiter.elapsed + advance)
       IN waiter' = [w EXCEPT !.closedAtReturn = (w.pc = "returned" /\ mon.closed)]
    /\ UNCHANGED <<samples, portReturn, mon, closers, releases, polls>>
    /\ UNCHANGED serialVars
    /\ UNCHANGED busVars
    /\ UNCHANGED ledVars
    /\ UNCHANGED extVars

\* case <-m.closeChan
WaitClosed ==
    /\ waiter.pc = "waiting"
    /\ mon.chanClosed > 0
    /\ waiter' = [waiter EXCEPT !.pc = "returned", !.pressed = FALSE, !.err = "closed",
                                !.closedAtReturn = mon.closed]
    /\ UNCHANGED <<samples, portReturn, mon, closers, releases, polls>>
    /\ UNCHANGED serialVars
    /\ UNCHANGED busVars
    /\ UNCHANGED ledVars
    /\ UNCHANGED extVars

\* the next iteration of the select loop of WaitForButtonPress
WaiterStep ==
    \/ \E value \in PortBytes, fail \in BOOLEAN, advance \in 1..2 :
            WaitTick(value, fail, advance)
    \/ WaitClosed

NextWait ==
    \/ \E timeout \in 0..MaxTimeout : StartWait(timeout)
    \/ \E value \in PortBytes, fail \in BOOLEAN, advance \in 1..2 :
            WaitTick(value, fail, advance)
    \/ WaitClosed
    \/ \E relFail \in BOOLEAN : CallMonitorClose(relFail)

\* the ticker of a waiting call keeps firing, so its select loop keeps iterating
SpecWait == InitPort /\ [][NextWait]_vars /\ WF_vars(WaiterStep)

(***************************************************************************)
(* Shutdown (SystemController.Close and the Close of each component).       *)
(* releases lists the release operations issued on the hardware handles:    *)
(* "button" is ioperm off for the button port, "serial" is Close on the     *)
(* serial library's port, "led" is ioperm off for the LED ports.            *)
(***************************************************************************)
Occurrences(seq, x) == Cardinality({i \in 1..Len(seq) : seq[i] = x})

\* SerialPort.Close: sp.port is never cleared, so every call closes the
\* library's port; what the library returns for a port already closed is
\* againErr
SerialPortClose(rel, againErr) ==
    [releases |-> Append(rel, "serial"),
     err |-> IF Occurrences(rel, "serial") > 0 /\ againErr THEN "closed" ELSE "nil"]

\* DisplayController.Close called on its own
CallDisplayClose(againErr) ==
    /\ Len(closers) < MaxClosers
    /\ LET r == SerialPortClose(releases, againErr)
       IN /\ releases' = r.releases
          /\ closers' = Append(closers, [obj |-> "display", pc |-> "done", err |-> r.err,
                                         first |-> Occurrences(releases, "serial") = 0,
                                         alone |-> AllReturned])
    /\ UNCHANGED <<samples, portReturn, waiter, mon, polls>>
    /\ UNCHANGED serialVars
    /\ UNCHANGED busVars
    /\ UNCHANGED ledVars
    /\ UNCHANGED extVars

\* SystemController.Close is called
StartSystemClose ==
    /\ Len(closers) < MaxClosers
    /\ closers' = Append(closers, [obj |-> "system", pc |-> "usb", err |-> "nil",
                                   first |-> Len(closers) = 0, alone |-> AllReturned])
    /\ UNCHANGED <<samples, portReturn, waiter, mon, releases, polls>>
    /\ UNCHANGED serialVars
    /\ UNCHANGED busVars
    /\ UNCHANGED ledVars
    /\ UNCHANGED extVars

\* the next step of SystemController.Close call c: the monitor, then the
\* display, then the LED controller, whose Close tests portPerms and then
\* releases and clears it with no lock held; errors are logged, nil is returned
SystemCloseStep(c, relFail, againErr) ==
    /\ c \in 1..Len(closers)
    /\ closers[c].obj = "system"
    /\ \/ /\ closers[c].pc = "usb"
          /\ IF mon = NoMonitor
             THEN UNCHANGED <<mon, releases>>
             ELSE LET r == MonitorClose(mon, relFail)
                  IN /\ mon' = r.m
                     /\ releases' = IF r.released THEN Append(releases, "button")
                                    ELSE releases
          /\ closers' = [closers EXCEPT ![c].pc = "display"]
          /\ UNCHANGED portPerms
       \/ /\ closers[c].pc = "display"
          /\ releases' = SerialPortClose(releases, againErr).releases
          /\ closers' = [closers EXCEPT ![c].pc = "ledCheck"]
          /\ UNCHANGED <<mon, portPerms>>
       \/ /\ closers[c].pc = "ledCheck"
          /\ closers' = [closers EXCEPT ![c].pc = IF portPerms THEN "ledRelease" ELSE "done"]
          /\ UNCHANGED <<mon, releases, portPerms>>
       \/ /\ closers[c].pc = "ledRelease"
          /\ releases' = Append(releases, "led")
          /\ portPerms' = FALSE
          /\ closers' = [closers EXCEPT ![c].pc = "done"]
          /\ UNCHANGED mon
    /\ UNCHANGED <<samples, portReturn, waiter, polls>>
    /\ UNCHANGED serialVars
    /\ UNCHANGED busVars
    /\ UNCHANGED <<regs, regSel, lastLedCall, ledReturn, ledThreads>>
    /\ UNCHANGED extVars

\* a SystemController.Close call has returned
SystemCloseReturned ==
    \E c \in 1..Len(closers) : closers[c].obj = "system" /\ closers[c].pc = "done"

\* one iteration of the loop of monitorButtons, which has no exit: the ticker
\* case writes a button state request, the default case reads the link
monitorButtonsIteration(kind) ==
    /\ polls.reads + polls.writes < MaxPolls
    /\ polls' = IF ~SystemCloseReturned THEN polls
                ELSE IF kind = "ticker" THEN [polls EXCEPT !.writes = @ + 1]
                ELSE [polls EXCEPT !.reads = @ + 1]
    /\ UNCHANGED <<samples, portReturn, waiter, mon, closers, releases>>
    /\ UNCHANGED serialVars
    /\ UNCHANGED busVars
    /\ UNCHANGED ledVars
    /\ UNCHANGED extVars

\* NewSystemController returned: the serial link is open, the LED permission
\* and the button monitor are there or not
InitClose ==
    /\ SerialIdle
    /\ BusIdle
    /\ regs = BusInitRegs
    /\ regSel = diskLEDPort.register
    /\ portPerms \in BOOLEAN
    /\ lastLedCall = NoLedCall
    /\ ledReturn = NoLedReturn
    /\ ledThreads = <<>>
    /\ samples = <<>>
    /\ portReturn = NoPortReturn
    /\ waiter = NoWait
    /\ mon \in {MonOpen, NoMonitor}
    /\ closers = <<>>
    /\ releases = <<>>
    /\ polls = NoPolls
    /\ ExtIdle

NextClose ==
    \/ StartSystemClose
    \/ \E c \in 1..Len(closers), relFail \in BOOLEAN, againErr \in BOOLEAN :
            SystemCloseStep(c, relFail, againErr)
    \/ \E relFail \in BOOLEAN : CallMonitorClose(relFail)
    \/ \E againErr \in BOOLEAN : CallDisplayClose(againErr)

SpecClose == InitClose /\ [][NextClose]_vars

\* Close calls and the two polling loops
NextShutdown ==
    \/ StartSystemClose
    \/ \E c \in 1..Len(closers), relFail \in BOOLEAN, againErr \in BOOLEAN :
            SystemCloseStep(c, relFail, againErr)
    \/ \E kind \in {"ticker", "default"} : monitorButtonsIteration(kind)
    \/ \E value \in {255, 254}, fail \in BOOLEAN : MonitorTick(value, fail)
    \/ MonitorExit

SpecShutdown == InitClose /\ [][NextShutdown]_vars

(***************************************************************************)
(* Claims about the LED driver (SpecLedApi, SpecActivity, SpecLedRace).    *)
(***************************************************************************)
\* C12: while the I/O-port permission is not held, SetLED, SetDiskLEDs and
\* SetStatusLED make no port access, leave every register and the register
\* selection as they were and return success, and GetLEDStates makes no port
\* access and returns an empty map without error.
C12_NoPermissionNoOp ==
    [][(~portPerms /\ ledReturn'.op \in {"set", "get"})
       => (/\ regs' = regs
           /\ regSel' = regSel
           /\ ledReturn'.accesses = 0
           /\ ~ledReturn'.err
           /\ ~lastLedCall'.wrote
           /\ ledReturn'.states = EmptyMap)]_vars

C12_Witness ==
    /\ ~portPerms
    /\ ledReturn = [op |-> "get", err |-> FALSE, accesses |-> 0, states |-> EmptyMap]
    /\ \A r \in DOMAIN regs : regs[r] \in InitBytes

\* LED l is lit in the register contents rg
LedOnIn(rg, l) == Bit(rg[portOf(l).register], portOf(l).leds[l]) = 0

\* every LED other than l is lit after the step exactly if it was before
OthersKept(l) == \A o \in PanelLEDs \ {l} : LedOn(o)' = LedOn(o)

\* C13 as stated: SetDiskActivity(n, v) returns an error and changes no LED when
\* n is outside 1..6, and for every n in 1..6 it succeeds and sets exactly the
\* LED of disk n to v.
C13_DiskActivitySetsLed ==
    [][ledReturn'.op = "activity" =>
        LET n == ledReturn'.diskNum
        IN IF n \notin 1..6
           THEN ledReturn'.err /\ regs' = regs
           ELSE /\ ~ledReturn'.err
                /\ LedOnIn(regs', diskLEDs[n]) = ledReturn'.active
                /\ OthersKept(diskLEDs[n])]_vars

\* C13 amended: SetDiskActivity(n, v) returns an error, makes no port access and
\* changes no LED when n is outside 1..6. For n in 1..6 it never changes an LED
\* other than that of disk n; without port permission it succeeds and changes
\* nothing; with permission it either fails at one of its port accesses, and
\* then returns the error and changes no LED, or succeeds, and then the LED of
\* disk n is lit exactly if v.
C13_DiskActivityWhenPermitted ==
    [][ledReturn'.op = "activity" =>
        LET n == ledReturn'.diskNum
            ret == ledReturn'
        IN IF n \notin 1..6
           THEN ret.err /\ ret.accesses = 0 /\ regs' = regs
           ELSE /\ OthersKept(diskLEDs[n])
                /\ ~portPerms => (~ret.err /\ ret.accesses = 0 /\ regs' = regs)
                /\ ret.err => (portPerms /\ ret.accesses \in 1..4 /\ regs' = regs)
                /\ (portPerms /\ ~ret.err) => LedOnIn(regs', diskLEDs[n]) = ret.active]_vars

C13_Witness ==
    /\ portPerms
    /\ ledReturn.op = "activity"
    /\ ledReturn.diskNum = 6
    /\ ledReturn.active
    /\ ~ledReturn.err
    /\ ledReturn.accesses = 4
    /\ LedOn(Disk6)
    /\ LedOn(Disk1)

\* C11: read-modify-write of an LED register is serialized against concurrent
\* LED calls: once all concurrent calls have returned, the change of every call
\* whose LED no other call names is present in the register, and no call has
\* read or written a register other than the one it selected.
C11_ConcurrentCallsSerialized ==
    (\A t \in 1..Len(ledThreads) : ledThreads[t].pc = "done") =>
        \A t \in 1..Len(ledThreads) :
            LET th == ledThreads[t]
            IN /\ th.touched \subseteq {portOf(th.led).register}
               /\ (\A u \in 1..Len(ledThreads) : u # t => ledThreads[u].led # th.led)
                    => LedOn(th.led) = th.on

(***************************************************************************)
(* C14: the polling loop the controller starts on the button port emits a   *)
(* press edge only on a majority of a 3-sample window: a window of three    *)
(* good samples of which exactly one reads pressed has no edge in it.       *)
(***************************************************************************)
C14_EdgeOnlyOnMajority ==
    \A i \in {k \in 1..(Len(samples) - 2) : k % sampleCount = 1} :
        LET w == {i, i + 1, i + 2}
        IN (/\ \A j \in w : ~samples[j].err
            /\ Cardinality({j \in w : samples[j].pressed}) = 1)
             => \A j \in w : ~samples[j].edge

(***************************************************************************)
(* C15: GetButtonState takes exactly 3 raw samples and returns pressed      *)
(* exactly when at least 2 of them have bit 0 clear, whatever the other     *)
(* bits are; when a sample read fails it returns the error and not pressed. *)
(***************************************************************************)
C15_DebouncedMajority ==
    portReturn.taken > 0 =>
        LET low == {i \in 1..sampleCount : Bit(portReturn.values[i], 0) = 0}
        IN /\ portReturn.err = "nil" =>
                /\ portReturn.taken = 3
                /\ portReturn.pressed <=> Cardinality(low) >= 2
           /\ portReturn.failAt # 0 => portReturn.err # "nil"
           /\ portReturn.err # "nil" => ~portReturn.pressed

\* two of three samples low, one of them with every other bit clear too, and
\* the call returned pressed
C15_Witness ==
    /\ portReturn.taken = 3
    /\ portReturn.err = "nil"
    /\ portReturn.pressed
    /\ Cardinality({i \in 1..sampleCount : Bit(portReturn.values[i], 0) = 0}) = 2
    /\ \E i \in 1..sampleCount : portReturn.values[i] = 0

(***************************************************************************)
(* C16: WaitForButtonPress returns (true, nil) when a sample reads pressed, *)
(* (false, nil) only once the timeout has elapsed and the sample read       *)
(* released, and (false, error) when the monitor is closed; once the        *)
(* monitor is closed the next iteration of the wait returns, and a wait     *)
(* on a closed monitor always returns.                                      *)
(***************************************************************************)
C16_ReturnedRight ==
    waiter.pc = "returned" =>
        /\ waiter.lastSample = "pressed" <=> (waiter.pressed /\ waiter.err = "nil")
        /\ (~waiter.pressed /\ waiter.err = "nil") =>
                (waiter.elapsed > waiter.timeout /\ waiter.lastSample = "released")
        /\ waiter.closedAtReturn => (~waiter.pressed /\ waiter.err # "nil")

C16_WaitOutcomes ==
    /\ [] C16_ReturnedRight
    /\ [][(mon.closed /\ waiter.pc = "waiting" /\ waiter' # waiter)
            => waiter'.pc = "returned"]_vars
    /\ (mon.closed /\ waiter.pc = "waiting") ~> (waiter.pc = "returned")

\* a wait that saw a released sample, then the monitor closed, returned the error
C16_Witness ==
    /\ waiter.pc = "returned"
    /\ waiter.closedAtReturn
    /\ waiter.lastSample = "released"
    /\ waiter.err = "closed"
    /\ ~waiter.pressed

(***************************************************************************)
(* C17: two Close calls issued concurrently on the same USBCopyMonitor or   *)
(* the same SystemController both complete and both return nil, and the     *)
(* close channel is closed exactly once.                                    *)
(***************************************************************************)
C17_BothReturnNil ==
    (/\ Len(closers) = 2
     /\ closers[1].obj = closers[2].obj
     /\ closers[1].obj \in {"system", "monitor"}
     /\ AllReturned)
        => /\ closers[1].err = "nil"
           /\ closers[2].err = "nil"
           /\ mon.chanClosed <= 1

\* C17 as the code has it: the close channel is closed at most once, and once
\* when the monitor is closed; every SystemController.Close returns nil; a
\* USBCopyMonitor.Close returns nil unless it is the call that closed the
\* monitor and its release of the port permission failed; a Close call that
\* has not returned can always take its next step.
C17_ConcurrentCloseCompletes ==
    /\ mon.chanClosed <= 1
    /\ mon.closed => mon.chanClosed = 1
    /\ \A c \in 1..Len(closers) :
          /\ closers[c].obj = "system" => closers[c].err = "nil"
          /\ (closers[c].obj = "monitor" /\ closers[c].err # "nil")
                => (closers[c].first /\ closers[c].err = "release")
          /\ closers[c].pc # "done"
                => ENABLED (\E relFail \in BOOLEAN, againErr \in BOOLEAN :
                                SystemCloseStep(c, relFail, againErr))

\* two SystemController.Close calls overlapped down to the LED release, and
\* both returned
C17_Witness ==
    /\ Len(closers) = 2
    /\ closers[1].obj = "system"
    /\ closers[2].obj = "system"
    /\ ~closers[2].alone
    /\ AllReturned
    /\ mon.chanClosed = 1
    /\ Occurrences(releases, "led") = 2

(***************************************************************************)
(* C18: over any sequence of Close calls each acquired handle is released   *)
(* exactly once: a second Close issues no further release operation and     *)
(* returns success.                                                         *)
(***************************************************************************)
C18_ReleasedOnce ==
    (\A c \in 1..Len(closers) : closers[c].alone) =>
        /\ \A h \in {"button", "serial", "led"} : Occurrences(releases, h) <= 1
        /\ \A c \in 1..Len(closers) :
              (closers[c].pc = "done" /\ ~closers[c].first) => closers[c].err = "nil"

(***************************************************************************)
(* C19: after SystemController.Close has returned both polling loops stop:  *)
(* no further serial read or write is issued, and no further port read.     *)
(***************************************************************************)
C19_PollersStop ==
    /\ polls = NoPolls
    /\ \A i \in 1..Len(samples) : samples[i].closed => samples[i].err

(***************************************************************************)
(* C20: SystemController.Close releases the handles in the reverse of the   *)
(* acquisition order (serial link, LED ports, button port): the button      *)
(* port first, then the LED ports, then the serial link.                    *)
(***************************************************************************)
HandleRank(h) == IF h = "button" THEN 1 ELSE IF h = "led" THEN 2 ELSE 3

C20_ReverseOrderRelease ==
    (Len(closers) = 1 /\ closers[1].obj = "system" /\ closers[1].pc = "done") =>
        \A i \in 1..Len(releases), j \in 1..Len(releases) :
            i < j => HandleRank(releases[i]) < HandleRank(releases[j])

(***************************************************************************)
(* Construction (NewSystemController): the serial link, then the LED port   *)
(* permission, then the button port; and the LED operations of the          *)
(* controller it returns.                                                   *)
(***************************************************************************)
\* NewSystemController that gives up when the LED permission is refused
NewSystemControllerStrict(serialOk, ledOk, usbCfg, usbOk) ==
    IF ~serialOk \/ ~ledOk
    THEN [built |-> FALSE, err |-> TRUE, handles |-> {}, portPerms |-> FALSE,
          mon |-> NoMonitor]
    ELSE [built |-> TRUE, err |-> FALSE,
          handles |-> {"serial", "led"} \cup (IF usbCfg /\ usbOk THEN {"button"} ELSE {}),
          portPerms |-> TRUE,
          mon |-> IF usbCfg /\ usbOk THEN MonOpen ELSE NoMonitor]

\* NewSystemController: serialOk is serial.OpenPort succeeding, ledOk the ioperm
\* call for the LED ports, usbCfg is cfg.USBCopy.IOPort != 0 and usbOk is
\* NewIOPortAccess succeeding
NewSystemController(serialOk, ledOk, usbCfg, usbOk) ==
    IF ~serialOk
    THEN [built |-> FALSE, err |-> TRUE, handles |-> {}, portPerms |-> FALSE,
          mon |-> NoMonitor]
    ELSE [built |-> TRUE, err |-> FALSE,
          handles |-> {"serial"} \cup (IF ledOk THEN {"led"} ELSE {})
                        \cup (IF usbCfg /\ usbOk THEN {"button"} ELSE {}),
          portPerms |-> ledOk,
          mon |-> IF usbCfg /\ usbOk THEN MonOpen ELSE NoMonitor]

\* one NewSystemController call; initializeSystem sets the LED registers when
\* the permission is held and /dev/port can be written (initOk)
CallNewSystemController(serialOk, ledOk, usbCfg, usbOk, initOk) ==
    /\ ~sys.built
    /\ ~sys.err
    /\ LET r == NewSystemController(serialOk, ledOk, usbCfg, usbOk)
       IN /\ sys' = [built |-> r.built, err |-> r.err, handles |-> r.handles,
                     serialOk |-> serialOk, ledOk |-> ledOk, usbOk |-> usbCfg /\ usbOk]
          /\ portPerms' = r.portPerms
          /\ mon' = r.mon
          /\ dcHandlerSet' = r.built
          /\ regs' = IF r.portPerms /\ initOk THEN BusInitRegs ELSE regs
          /\ regSel' = IF r.portPerms /\ initOk THEN diskLEDPort.register ELSE regSel
    /\ UNCHANGED <<lastLedCall, ledReturn, ledThreads>>
    /\ UNCHANGED <<scHandler, scHandlerSeen, tasks, delivered, lastPressed, crashed,
                   handlerMode, serialTx>>
    /\ UNCHANGED <<samples, portReturn, waiter, closers, releases, polls>>
    /\ UNCHANGED serialVars
    /\ UNCHANGED <<link, rwlock, readers, menuVars, dispCall>>

\* SystemController.SetSystemStatus: the status text on the display (a failed
\* write is logged), then the red or the green status LED (the result of
\* SetStatusLED is dropped); nil is returned
CallSetSystemStatus(status, isError, wfail, fail) ==
    /\ sys.built
    /\ Len(serialTx) < MaxStatusWrites
    /\ serialTx' = IF wfail = 1 THEN serialTx
                   ELSE IF wfail = 2 THEN Append(serialTx, [row |-> 0, text |-> status])
                   ELSE Append(Append(serialTx, [row |-> 0, text |-> status]),
                               [row |-> 1, text |-> ""])
    /\ LET r == SetStatusLED(isError, ~isError, fail)
       IN /\ LedEffect(r)
          /\ ledReturn' = [op |-> "status", err |-> FALSE, accesses |-> r.hw.n,
                           states |-> EmptyMap]
    /\ UNCHANGED <<dcHandlerSet, scHandler, scHandlerSeen, tasks, delivered, lastPressed,
                   crashed, handlerMode>>
    /\ UNCHANGED serialVars
    /\ UNCHANGED portVars
    /\ UNCHANGED extVars

\* before NewSystemController: nothing acquired, the LED registers at their
\* power-on value
InitConstruct ==
    /\ SerialIdle
    /\ BusIdle
    /\ regs = [r \in LedRegisters \cup {OtherRegister} |-> 255]
    /\ regSel = OtherRegister
    /\ portPerms = FALSE
    /\ lastLedCall = NoLedCall
    /\ ledReturn = NoLedReturn
    /\ ledThreads = <<>>
    /\ samples = <<>>
    /\ portReturn = NoPortReturn
    /\ waiter = NoWait
    /\ mon = NoMonitor
    /\ closers = <<>>
    /\ releases = <<>>
    /\ polls = NoPolls
    /\ ExtIdle

\* the inputs of the LED operations after construction
ConstructLeds == {USB, Disk1}
ConstructNums == {0, 1, 7}

NextConstruct ==
    \/ \E serialOk \in BOOLEAN, ledOk \in BOOLEAN, usbCfg \in BOOLEAN, usbOk \in BOOLEAN,
          initOk \in BOOLEAN :
            CallNewSystemController(serialOk, ledOk, usbCfg, usbOk, initOk)
    \/ \E led \in ConstructLeds, on \in BOOLEAN, fail \in BusFailPoints :
            sys.built /\ ReturnSetLED(led, on, fail)
    \/ \E diskNum \in ConstructNums, active \in BOOLEAN, fail \in BusFailPoints :
            sys.built /\ CallSetDiskActivity(diskNum, active, fail)
    \/ \E isError \in BOOLEAN, wfail \in WriteFails, fail \in BusFailPoints :
            CallSetSystemStatus("Fault", isError, wfail, fail)

SpecConstruct == InitConstruct /\ [][NextConstruct]_vars

(***************************************************************************)
(* C21: NewSystemController returns an error exactly when the serial device *)
(* cannot be opened, and then holds no hardware handle; a refused LED       *)
(* permission or button port never fails construction and leaves the        *)
(* feature disabled, with SetLED, SetDiskActivity (for a disk the panel     *)
(* has) and SetSystemStatus changing no LED register and returning success. *)
(***************************************************************************)
C21_Constructed ==
    (sys.built \/ sys.err) =>
        /\ sys.err <=> ~sys.serialOk
        /\ sys.built <=> sys.serialOk
        /\ sys.err => (sys.handles = {} /\ ~portPerms /\ mon = NoMonitor)
        /\ sys.built =>
              /\ "serial" \in sys.handles
              /\ "led" \in sys.handles <=> sys.ledOk
              /\ "button" \in sys.handles <=> sys.usbOk
              /\ portPerms <=> sys.ledOk
              /\ (mon = NoMonitor) <=> ~sys.usbOk

LCD_CHARS_PER_LINE == 16
\* ' '
SpaceByte == 32

\* texts of every length up to MaxText, of letters, and one of spaces and letters
Texts ==
    {[i \in 1..n |-> 65 + (i % 7)] : n \in 0..MaxText}
    \cup {[i \in 1..n |-> IF i % 2 = 0 THEN SpaceByte ELSE 122] : n \in 1..MaxText}

\* rows and columns WriteTextAt is called with
Rows == {-1, 0, 1, 2}
Cols == {0, 5}

\* "Truncate and pad text to fit LCD width"
displayTextOf(text) ==
    LET cut == IF Len(text) > LCD_CHARS_PER_LINE
               THEN SubSeq(text, 1, LCD_CHARS_PER_LINE) ELSE text
    IN cut \o [i \in 1..(LCD_CHARS_PER_LINE - Len(cut)) |-> SpaceByte]

\* WriteTextAt that sends the text as long as it is
WriteTextAtNoTruncate(text, row, col, wfail) ==
    IF row < 0 \/ row > 1
    THEN [err |-> "row", writes |-> <<>>]
    ELSE [err |-> IF wfail THEN "write" ELSE "nil",
          writes |-> << <<77, 12, row, 16>> \o text >>]

\* WriteTextAt: the row test, then one serialPort.Write of the command; wfail
\* is that write failing
WriteTextAt(text, row, col, wfail) ==
    IF row < 0 \/ row > 1
    THEN [err |-> "row", writes |-> <<>>]
    ELSE [err |-> IF wfail THEN "write" ELSE "nil",
          writes |-> << <<77, 12, row, 16>> \o displayTextOf(text) >>]

CallWriteTextAt(text, row, col, wfail) ==
    /\ LET r == WriteTextAt(text, row, col, wfail)
       IN dispCall' = [op |-> "WriteTextAt", text |-> text, row |-> row, col |-> col,
                       err |-> r.err, writes |-> r.writes]
    /\ UNCHANGED serialVars
    /\ UNCHANGED busVars
    /\ UNCHANGED ledVars
    /\ UNCHANGED portVars
    /\ UNCHANGED <<sys, link, rwlock, readers, menuVars>>

InitDisplay ==
    /\ SerialIdle
    /\ BusIdle
    /\ LedIdle
    /\ PortIdle
    /\ ExtIdle

NextDisplay ==
    \E text \in Texts, row \in Rows, col \in Cols, wfail \in BOOLEAN :
        CallWriteTextAt(text, row, col, wfail)

SpecDisplay == InitDisplay /\ [][NextDisplay]_vars

(***************************************************************************)
(* C22: WriteTextAt(text, row, col) with row 0 or 1 issues exactly one      *)
(* serial write of exactly 20 bytes, 0x4D 0x0C row 0x10 and then the first  *)
(* 16 bytes of text padded with spaces to 16, whatever col is; with any     *)
(* other row it returns an error and writes nothing.                        *)
(***************************************************************************)
C22_WriteTextAtCommand ==
    dispCall.op = "WriteTextAt" =>
        IF dispCall.row \in {0, 1}
        THEN /\ Len(dispCall.writes) = 1
             /\ Len(dispCall.writes[1]) = 20
             /\ SubSeq(dispCall.writes[1], 1, 4) = <<77, 12, dispCall.row, 16>>
             /\ \A i \in 1..16 :
                    dispCall.writes[1][4 + i] =
                        IF i <= Len(dispCall.text) THEN dispCall.text[i] ELSE 32
        ELSE /\ dispCall.err # "nil"
             /\ dispCall.writes = <<>>

\* a text longer than the line, written to row 1 from a column other than 0
C22_Witness ==
    /\ dispCall.op = "WriteTextAt"
    /\ Len(dispCall.text) > 16
    /\ dispCall.row = 1
    /\ dispCall.col = 5
    /\ dispCall.err = "nil"
    /\ Len(dispCall.writes) = 1

(***************************************************************************)
(* The serial link as a shared resource. SerialPort.Write takes no lock and *)
(* neither does DisplayController: the polling goroutine (monitorButtons)   *)
(* and the callers of the display operations each call it on their own      *)
(* goroutine. A write is in progress from the call of sp.port.Write to its  *)
(* return.                                                                  *)
(***************************************************************************)
\* SetBacklight: the command it writes
SetBacklight(on) == <<77, 94, IF on THEN 1 ELSE 0>>

\* RequestButtonState: the command it writes
RequestButtonState == <<77, 5>>

\* commands a display caller writes
CallerCommands ==
    {WriteTextAt(<<79, 75>>, row, 0, FALSE).writes[1] : row \in {0, 1}}
    \cup {SetBacklight(on) : on \in BOOLEAN}

\* SerialPort.Write is entered by goroutine by, with data
WriteBegin(by, data) ==
    /\ \A w \in link.writing : w.by # by
    /\ Len(serialTx) + Cardinality(link.writing) < MaxLinkWrites
    /\ link' = [writing |-> link.writing \cup {[by |-> by, data |-> data]},
                overlapped |-> link.overlapped \/ link.writing # {}]
    /\ UNCHANGED serialTx
    /\ UNCHANGED <<dcHandlerSet, scHandler, scHandlerSeen, tasks, delivered, lastPressed,
                   crashed, handlerMode>>
    /\ UNCHANGED serialVars
    /\ UNCHANGED ledVars
    /\ UNCHANGED portVars
    /\ UNCHANGED <<sys, rwlock, readers, menuVars, dispCall>>

\* sp.port.Write returns: the bytes are on the wire
WriteEnd(w) ==
    /\ w \in link.writing
    /\ link' = [link EXCEPT !.writing = @ \ {w}]
    /\ serialTx' = Append(serialTx, w.data)
    /\ UNCHANGED <<dcHandlerSet, scHandler, scHandlerSeen, tasks, delivered, lastPressed,
                   crashed, handlerMode>>
    /\ UNCHANGED serialVars
    /\ UNCHANGED ledVars
    /\ UNCHANGED portVars
    /\ UNCHANGED <<sys, rwlock, readers, menuVars, dispCall>>

NextLink ==
    \/ WriteBegin("poller", RequestButtonState)
    \/ \E data \in CallerCommands : WriteBegin("caller", data)
    \/ \E w \in link.writing : WriteEnd(w)

SpecLink == InitDisplay /\ [][NextLink]_vars

(***************************************************************************)
(* C23: writes to the serial link are serialized: the polling task's        *)
(* button-state request and a display caller's write are never in progress  *)
(* at the same time.                                                        *)
(***************************************************************************)
C23_WritesSerialized == Cardinality(link.writing) <= 1

(***************************************************************************)
(* IsButtonPressed and Close on concurrent goroutines, with the monitor's   *)
(* RWMutex: IsButtonPressed holds the read lock from its closed test to the *)
(* end of ReadByte, Close holds the write lock for its whole body.          *)
(***************************************************************************)
\* m.mutex.Lock() with readers let through
CanLockOverReaders(l) == ~l.writer

\* m.mutex.Lock() can be taken
CanLock(l) == l.readers = 0 /\ ~l.writer

\* m.mutex.RLock() can be taken
CanRLock(l) == ~l.writer

\* a Close call on the monitor has returned
MonitorCloseReturned ==
    \E c \in 1..Len(closers) : closers[c].obj = "monitor" /\ closers[c].pc = "done"

\* IsButtonPressed is called on its own goroutine
StartIsButtonPressed ==
    /\ Len(readers) < MaxReaders
    /\ readers' = Append(readers, [pc |-> "rlock", err |-> "nil", pressed |-> FALSE,
                                   afterClose |-> MonitorCloseReturned,
                                   readReleased |-> FALSE])
    /\ UNCHANGED rwlock
    /\ UNCHANGED serialVars
    /\ UNCHANGED busVars
    /\ UNCHANGED ledVars
    /\ UNCHANGED portVars
    /\ UNCHANGED <<sys, link, menuVars, dispCall>>

\* the next step of IsButtonPressed call r: RLock, the closed test, ReadByte's
\* acquired test, the port read (value), RUnlock
IsButtonPressedStep(r, value) ==
    /\ r \in 1..Len(readers)
    /\ \/ /\ readers[r].pc = "rlock"
          /\ CanRLock(rwlock)
          /\ rwlock' = [rwlock EXCEPT !.readers = @ + 1]
          /\ readers' = [readers EXCEPT ![r].pc = "closed?"]
       \/ /\ readers[r].pc = "closed?"
          /\ readers' = IF mon.closed
                        THEN [readers EXCEPT ![r].pc = "runlock", ![r].err = "closed"]
                        ELSE [readers EXCEPT ![r].pc = "acquired?"]
          /\ UNCHANGED rwlock
       \/ /\ readers[r].pc = "acquired?"
          /\ readers' = IF ~mon.acquired
                        THEN [readers EXCEPT ![r].pc = "runlock", ![r].err = "read"]
                        ELSE [readers EXCEPT ![r].pc = "inb"]
          /\ UNCHANGED rwlock
       \/ /\ readers[r].pc = "inb"
          /\ readers' = [readers EXCEPT ![r].pc = "runlock",
                                        ![r].pressed = (Bit(value, 0) = 0),
                                        ![r].readReleased = ~mon.acquired]
          /\ UNCHANGED rwlock
       \/ /\ readers[r].pc = "runlock"
          /\ rwlock' = [rwlock EXCEPT !.readers = @ - 1]
          /\ readers' = [readers EXCEPT ![r].pc = "done"]
    /\ UNCHANGED serialVars
    /\ UNCHANGED busVars
    /\ UNCHANGED ledVars
    /\ UNCHANGED portVars
    /\ UNCHANGED <<sys, link, menuVars, dispCall>>

\* Close is called and takes the write lock
MonitorCloseLock ==
    /\ Len(closers) < MaxClosers
    /\ CanLock(rwlock)
    /\ rwlock' = [rwlock EXCEPT !.writer = TRUE]
    /\ closers' = Append(closers, [obj |-> "monitor", pc |-> "locked", err |-> "nil",
                                   first |-> ~mon.closed, alone |-> AllReturned])
    /\ UNCHANGED <<samples, portReturn, waiter, mon, releases, polls>>
    /\ UNCHANGED serialVars
    /\ UNCHANGED busVars
    /\ UNCHANGED ledVars
    /\ UNCHANGED <<sys, link, readers, menuVars, dispCall>>

\* the body of Close under the write lock, and the deferred Unlock
MonitorCloseUnlock(c, relFail) ==
    /\ c \in 1..Len(closers)
    /\ closers[c].obj = "monitor"
    /\ closers[c].pc = "locked"
    /\ LET r == MonitorClose(mon, relFail)
       IN /\ mon' = r.m
          /\ closers' = [closers EXCEPT ![c].pc = "done", ![c].err = r.err]
          /\ releases' = IF r.released THEN Append(releases, "button") ELSE releases
    /\ rwlock' = [rwlock EXCEPT !.writer = FALSE]
    /\ UNCHANGED <<samples, portReturn, waiter, polls>>
    /\ UNCHANGED serialVars
    /\ UNCHANGED busVars
    /\ UNCHANGED ledVars
    /\ UNCHANGED <<sys, link, readers, menuVars, dispCall>>

NextReaders ==
    \/ StartIsButtonPressed
    \/ \E r \in 1..Len(readers), value \in {255, 254} : IsButtonPressedStep(r, value)
    \/ MonitorCloseLock
    \/ \E c \in 1..Len(closers), relFail \in BOOLEAN : MonitorCloseUnlock(c, relFail)

SpecReaders == InitPort /\ [][NextReaders]_vars

(***************************************************************************)
(* C24: once USBCopyMonitor.Close has returned every IsButtonPressed call   *)
(* returns an error, and under any interleaving of Close with concurrent    *)
(* IsButtonPressed calls no port read happens after the port was released.  *)
(***************************************************************************)
C24_NoReadAfterClose ==
    \A r \in 1..Len(readers) :
        /\ ~readers[r].readReleased
        /\ (readers[r].afterClose /\ readers[r].pc = "done")
                => (readers[r].err # "nil" /\ ~readers[r].pressed)
        /\ (readers[r].pc = "inb") => (mon.acquired /\ ~mon.closed)

\* one call read the port and returned, Close ran, and a later call got the error
C24_Witness ==
    \E r \in 1..Len(readers), q \in 1..Len(readers) :
        /\ readers[r].pc = "done"
        /\ readers[r].err = "nil"
        /\ readers[r].pressed
        /\ readers[q].pc = "done"
        /\ readers[q].afterClose
        /\ readers[q].err = "closed"
        /\ ~mon.acquired

(***************************************************************************)
(* SerialPort.ReadAvailable and the poller's use of its result.            *)
(***************************************************************************)
\* what the port's Read did: the port was never opened, Read failed with one
\* of the three messages the code names or with another error, Read returned
\* no bytes, Read returned bytes
ReadOutcomes == {"nilPort", "timeout", "EOF", "unavailable", "ioerror", "zero", "data"}

ReadBytes == {83, 5, 255}

RECURSIVE ReadChunks(_)
ReadChunks(n) ==
    IF n = 0 THEN {<<>>}
    ELSE LET shorter == ReadChunks(n - 1)
         IN shorter \cup {Append(d, b) : d \in {s \in shorter : Len(s) = n - 1},
                                         b \in ReadBytes}

\* ReadAvailable that hands a read error other than the three named to its caller
ReadAvailablePropagate(outcome, buffer) ==
    IF outcome = "nilPort" THEN [data |-> <<>>, err |-> "nil"]
    ELSE IF outcome \in {"timeout", "EOF", "unavailable"} THEN [data |-> <<>>, err |-> "nil"]
    ELSE IF outcome = "ioerror" THEN [data |-> <<>>, err |-> "read"]
    ELSE IF outcome = "zero" \/ Len(buffer) = 0 THEN [data |-> <<>>, err |-> "nil"]
    ELSE [data |-> buffer, err |-> "nil"]

\* ReadAvailable: buffer is what Read put into the 256-byte buffer
ReadAvailable(outcome, buffer) ==
    IF outcome = "nilPort" THEN [data |-> <<>>, err |-> "nil"]
    ELSE IF outcome \in {"timeout", "EOF", "unavailable"} THEN [data |-> <<>>, err |-> "nil"]
    ELSE IF outcome = "ioerror" THEN [data |-> <<>>, err |-> "nil"]
    ELSE IF outcome = "zero" \/ Len(buffer) = 0 THEN [data |-> <<>>, err |-> "nil"]
    ELSE [data |-> buffer, err |-> "nil"]

\* the default branch of monitorButtons: which way the loop goes on with the
\* result of ReadAvailable (all three go round the loop again)
pollBranch(r) ==
    IF r.err # "nil" THEN "error"
    ELSE IF Len(r.data) = 0 THEN "empty"
    ELSE "process"

CallReadAvailable(outcome, buffer) ==
    /\ LET r == ReadAvailable(outcome, buffer)
       IN dispCall' = [op |-> "ReadAvailable", outcome |-> outcome, buffer |-> buffer,
                       data |-> r.data, err |-> r.err, branch |-> pollBranch(r)]
    /\ UNCHANGED serialVars
    /\ UNCHANGED busVars
    /\ UNCHANGED ledVars
    /\ UNCHANGED portVars
    /\ UNCHANGED <<sys, link, rwlock, readers, menuVars>>

NextSerialRead ==
    \E outcome \in ReadOutcomes, buffer \in ReadChunks(MaxRead) :
        CallReadAvailable(outcome, buffer)

SpecSerialRead == InitDisplay /\ [][NextSerialRead]_vars

(***************************************************************************)
(* C25: SerialPort.ReadAvailable never returns an error: a timeout, EOF,    *)
(* no data, a port that was never opened and any other read failure all     *)
(* give an empty result and a nil error, so the polling loop never takes    *)
(* its error branch.                                                         *)
(***************************************************************************)
C25_ReadNeverFails ==
    dispCall.op = "ReadAvailable" =>
        /\ dispCall.err = "nil"
        /\ dispCall.branch # "error"
        /\ (dispCall.outcome # "data" => dispCall.data = <<>>)
        /\ (dispCall.outcome = "data" => dispCall.data = dispCall.buffer)

\* a read failure other than a timeout, with bytes in the buffer that are dropped
C25_Witness ==
    /\ dispCall.op = "ReadAvailable"
    /\ dispCall.outcome = "ioerror"
    /\ Len(dispCall.buffer) > 0
    /\ dispCall.data = <<>>
    /\ dispCall.err = "nil"

(***************************************************************************)
(* The menu system (MenuSystem). A menu is named by an id; the             *)
(* configuration gives each menu its title and its items by key. A menu    *)
(* state s carries currentMenu, menuStack, selectedIndex and menuKeys.     *)
(***************************************************************************)
\* an item of the configuration: its type and, for a submenu, the menu it opens
Item(type, menu) == [type |-> type, menu |-> menu]

\* the value a Go map lookup gives for a key that is absent
ZeroItem == Item("", "none")

\* a configuration in the shape of DefaultConfig: "display" and "wifi" carry an
\* item keyed "back", "network" does not; "bare" is a root without items
MenuItems ==
    [main |-> ("display" :> Item("submenu", "display"))
              @@ ("network" :> Item("submenu", "network"))
              @@ ("system" :> Item("command", "none")),
     display |-> ("back" :> Item("back", "none"))
                 @@ ("backlight_on" :> Item("display_command", "none")),
     network |-> ("ip" :> Item("command", "none"))
                 @@ ("wifi" :> Item("submenu", "wifi")),
     wifi |-> ("back" :> Item("back", "none"))
              @@ ("scan" :> Item("command", "none")),
     bare |-> [k \in {} |-> ZeroItem]]

MenuTitle ==
    [main |-> "Main Menu", display |-> "Display", network |-> "Network",
     wifi |-> "Wifi", bare |-> "Bare"]

RootMenus == {"main", "bare"}

\* every key of the configuration in the order sort.Strings gives
KeyOrder == <<"back", "backlight_on", "display", "ip", "network", "scan", "system", "wifi">>

InKeys(menu, k) == k \in DOMAIN MenuItems[menu]

sortedKeys(menu) == SelectSeq(KeyOrder, LAMBDA k : InKeys(menu, k))

\* currentMenu.Items[key]
ItemAt(menu, key) == IF InKeys(menu, key) THEN MenuItems[menu][key] ELSE ZeroItem

MenuState(cur, stack, idx, keys) ==
    [currentMenu |-> cur, menuStack |-> stack, selectedIndex |-> idx, menuKeys |-> keys]

\* the menu state held in the variables
ms == MenuState(currentMenu, menuStack, selectedIndex, menuKeys)

updateMenuKeys(s) ==
    LET sorted == sortedKeys(s.currentMenu)
        keys == IF Len(s.menuStack) > 0 THEN <<"back">> \o sorted ELSE sorted
    IN [s EXCEPT !.menuKeys = keys,
                 !.selectedIndex = IF s.selectedIndex >= Len(keys) THEN 0 ELSE @]

NewMenuSystem(root) == updateMenuKeys(MenuState(root, <<>>, 0, <<>>))

\* handleSelectButton that stops at the last option
handleSelectButtonNoWrap(s) ==
    IF Len(s.menuKeys) = 0 THEN s
    ELSE [s EXCEPT !.selectedIndex = s.selectedIndex + 1]

handleSelectButton(s) ==
    IF Len(s.menuKeys) = 0 THEN s
    ELSE [s EXCEPT !.selectedIndex = (s.selectedIndex + 1) % Len(s.menuKeys)]

navigateToSubmenu(s, menu) ==
    updateMenuKeys([s EXCEPT !.menuStack = Append(s.menuStack, s.currentMenu),
                             !.currentMenu = menu,
                             !.selectedIndex = 0])

\* navigateBack that leaves the stack as it is
navigateBackNoPop(s) ==
    IF Len(s.menuStack) = 0 THEN s
    ELSE updateMenuKeys([s EXCEPT !.currentMenu = s.menuStack[Len(s.menuStack)],
                                  !.selectedIndex = 0])

navigateBack(s) ==
    IF Len(s.menuStack) = 0 THEN s
    ELSE updateMenuKeys([s EXCEPT !.currentMenu = s.menuStack[Len(s.menuStack)],
                                  !.menuStack = SubSeq(s.menuStack, 1, Len(s.menuStack) - 1),
                                  !.selectedIndex = 0])

GetCurrentMenuPath(s) ==
    [i \in 1..Len(s.menuStack) |-> MenuTitle[s.menuStack[i]]]
        \o <<MenuTitle[s.currentMenu]>>

\* handleEnterButton: the menu state it leaves and the case of its switch that
\* ran ("empty": no keys; "ignored": no case matched the item's type)
handleEnterButton(s) ==
    IF Len(s.menuKeys) = 0 THEN [ms |-> s, did |-> "empty"]
    ELSE LET selectedKey == s.menuKeys[s.selectedIndex + 1]
             selectedItem == ItemAt(s.currentMenu, selectedKey)
         IN IF selectedItem.type = "submenu"
            THEN [ms |-> navigateToSubmenu(s, selectedItem.menu), did |-> "submenu"]
            ELSE IF selectedItem.type \in {"command", "display_command"}
            THEN [ms |-> s, did |-> selectedItem.type]
            ELSE IF selectedItem.type = "back"
            THEN [ms |-> navigateBack(s), did |-> "back"]
            ELSE [ms |-> s, did |-> "ignored"]

\* the scrolling goroutine is blocked receiving from stopOutputChan
ScrollerReceiving == scroller \in {"waitStop", "select"}

SetMenu(s) ==
    /\ currentMenu' = s.currentMenu
    /\ menuStack' = s.menuStack
    /\ selectedIndex' = s.selectedIndex
    /\ menuKeys' = s.menuKeys

\* a press: the button, the case that ran, whether output was displayed when it
\* came, and the menu state and selected key it found
Press(button, did) ==
    [button |-> button, did |-> did, wasDisplaying |-> displayingOutput,
     pre |-> ms,
     key |-> IF Len(menuKeys) > 0 THEN menuKeys[selectedIndex + 1] ELSE "",
     tick |-> 1 - lastPress.tick]

\* stopOutputDisplay: a send that is dropped unless the goroutine is receiving
stopOutputDisplay(button) ==
    /\ scroller' = IF ScrollerReceiving THEN "stopped" ELSE scroller
    /\ lastPress' = Press(button, IF ScrollerReceiving THEN "stop" ELSE "dropped")
    /\ UNCHANGED <<currentMenu, menuStack, selectedIndex, menuKeys, displayingOutput>>

MenuFrame ==
    /\ UNCHANGED serialVars
    /\ UNCHANGED busVars
    /\ UNCHANGED ledVars
    /\ UNCHANGED portVars
    /\ UNCHANGED <<sys, link, rwlock, readers, dispCall>>

HandleSelectButton ==
    /\ currentMenu # "none"
    /\ IF displayingOutput
       THEN stopOutputDisplay("select")
       ELSE /\ SetMenu(handleSelectButton(ms))
            /\ lastPress' = Press("select", IF Len(menuKeys) = 0 THEN "empty" ELSE "next")
            /\ UNCHANGED <<displayingOutput, scroller>>
    /\ MenuFrame

\* long: the output of the command is wider than the display
HandleEnterButton(long) ==
    /\ currentMenu # "none"
    /\ IF displayingOutput
       THEN stopOutputDisplay("enter")
       ELSE LET r == handleEnterButton(ms)
                runs == r.did \in {"command", "display_command"}
            IN /\ SetMenu(r.ms)
               /\ lastPress' = Press("enter", r.did)
               /\ displayingOutput' = (runs \/ displayingOutput)
               /\ scroller' = IF runs THEN (IF long THEN "startLong" ELSE "startShort")
                              ELSE scroller
    /\ MenuFrame

\* navigateToSubmenu and navigateBack called on their own
CallNavigateToSubmenu(k) ==
    /\ currentMenu # "none"
    /\ ~displayingOutput
    /\ InKeys(currentMenu, k)
    /\ MenuItems[currentMenu][k].type = "submenu"
    /\ SetMenu(navigateToSubmenu(ms, MenuItems[currentMenu][k].menu))
    /\ lastPress' = Press("none", "navigateToSubmenu")
    /\ UNCHANGED <<displayingOutput, scroller>>
    /\ MenuFrame

CallNavigateBack ==
    /\ currentMenu # "none"
    /\ ~displayingOutput
    /\ SetMenu(navigateBack(ms))
    /\ lastPress' = Press("none", "navigateBack")
    /\ UNCHANGED <<displayingOutput, scroller>>
    /\ MenuFrame

\* scrollOutputRoutine up to its first wait: a short output is written once
ScrollStart(wfail) ==
    /\ scroller \in {"startShort", "startLong"}
    /\ scroller' = IF scroller = "startLong" THEN "select"
                   ELSE IF wfail THEN "failed" ELSE "waitStop"
    /\ UNCHANGED <<currentMenu, menuStack, selectedIndex, menuKeys, displayingOutput,
                   lastPress>>
    /\ MenuFrame

\* the 500 ms ticker fires: the goroutine leaves the select and writes a window
ScrollTick ==
    /\ scroller = "select"
    /\ scroller' = "writing"
    /\ UNCHANGED <<currentMenu, menuStack, selectedIndex, menuKeys, displayingOutput,
                   lastPress>>
    /\ MenuFrame

ScrollWrite(wfail) ==
    /\ scroller = "writing"
    /\ scroller' = IF wfail THEN "failed" ELSE "select"
    /\ UNCHANGED <<currentMenu, menuStack, selectedIndex, menuKeys, displayingOutput,
                   lastPress>>
    /\ MenuFrame

\* the deferred function of scrollOutputRoutine
ScrollExit ==
    /\ scroller \in {"stopped", "failed"}
    /\ scroller' = "none"
    /\ displayingOutput' = FALSE
    /\ UNCHANGED <<currentMenu, menuStack, selectedIndex, menuKeys, lastPress>>
    /\ MenuFrame

InitMenu ==
    /\ SerialIdle
    /\ BusIdle
    /\ LedIdle
    /\ PortIdle
    /\ sys = NoSystem
    /\ link = NoLink
    /\ rwlock = NoLock
    /\ readers = <<>>
    /\ dispCall = NoDispCall
    /\ \E root \in RootMenus :
          LET s == NewMenuSystem(root)
          IN /\ currentMenu = s.currentMenu
             /\ menuStack = s.menuStack
             /\ selectedIndex = s.selectedIndex
             /\ menuKeys = s.menuKeys
    /\ displayingOutput = FALSE
    /\ scroller = "none"
    /\ lastPress = NoPress

NextMenu ==
    \/ HandleSelectButton
    \/ \E long \in BOOLEAN : HandleEnterButton(long)
    \/ \E i \in 1..Len(KeyOrder) : CallNavigateToSubmenu(KeyOrder[i])
    \/ CallNavigateBack
    \/ \E wfail \in BOOLEAN : ScrollStart(wfail)
    \/ ScrollTick
    \/ \E wfail \in BOOLEAN : ScrollWrite(wfail)
    \/ ScrollExit

SpecMenu == InitMenu /\ [][NextMenu]_vars

(***************************************************************************)
(* C26: in every submenu (menu stack not empty), ENTER on the "Back" entry *)
(* that updateMenuKeys adds pops the menu stack and returns to the parent  *)
(* menu, whether or not the submenu's items contain one keyed "back".      *)
(***************************************************************************)
C26_BackEntryGoesBack ==
    (/\ lastPress.button = "enter"
     /\ ~lastPress.wasDisplaying
     /\ Len(lastPress.pre.menuStack) > 0
     /\ lastPress.pre.selectedIndex = 0)
    => /\ lastPress.did = "back"
       /\ Len(menuStack) = Len(lastPress.pre.menuStack) - 1
       /\ currentMenu = lastPress.pre.menuStack[Len(lastPress.pre.menuStack)]

(***************************************************************************)
(* C27: while command output is displayed, any ENTER or SELECT press stops *)
(* the output display (the stop reaches the scrolling goroutine), and the  *)
(* press changes neither the selected index nor the current menu nor the   *)
(* menu stack.                                                             *)
(***************************************************************************)
C27_PressStopsOutput ==
    (lastPress.button \in {"enter", "select"} /\ lastPress.wasDisplaying)
    => /\ lastPress.did = "stop"
       /\ ms = lastPress.pre

(***************************************************************************)
(* C28: navigateToSubmenu followed by navigateBack restores the current    *)
(* menu, the menu path (GetCurrentMenuPath) and the stack depth that were  *)
(* there before, with the selection at index 0; navigateBack at the root   *)
(* menu changes nothing.                                                   *)
(***************************************************************************)
SubmenusOf(menu) ==
    {MenuItems[menu][k].menu : k \in {j \in DOMAIN MenuItems[menu] :
                                        MenuItems[menu][j].type = "submenu"}}

C28_EnterThenBackRestores ==
    /\ \A sub \in SubmenusOf(currentMenu) :
          LET there == navigateToSubmenu(ms, sub)
              again == navigateBack(there)
          IN /\ there.currentMenu = sub
             /\ Len(there.menuStack) = Len(menuStack) + 1
             /\ again.currentMenu = currentMenu
             /\ GetCurrentMenuPath(again) = GetCurrentMenuPath(ms)
             /\ Len(again.menuStack) = Len(menuStack)
             /\ again.menuStack = menuStack
             /\ again.menuKeys = menuKeys
             /\ again.selectedIndex = 0
    /\ Len(menuStack) = 0 => navigateBack(ms) = ms
    /\ (lastPress.did \in {"back", "navigateBack"} /\ ~lastPress.wasDisplaying) =>
          IF Len(lastPress.pre.menuStack) = 0
          THEN ms = lastPress.pre
          ELSE /\ selectedIndex = 0
               /\ Len(menuStack) = Len(lastPress.pre.menuStack) - 1
               /\ currentMenu = lastPress.pre.menuStack[Len(lastPress.pre.menuStack)]

\* back from a submenu of a submenu, entered with the selection moved off 0
C28_Witness ==
    /\ lastPress.did \in {"back", "navigateBack"}
    /\ Len(lastPress.pre.menuStack) = 2
    /\ lastPress.pre.selectedIndex > 0
    /\ currentMenu = "network"
    /\ menuStack = <<"main">>
    /\ selectedIndex = 0
    /\ SubmenusOf(currentMenu) # {}

(***************************************************************************)
(* C29: after any sequence of SELECT presses, ENTER presses, submenu       *)
(* entries and back navigations, selectedIndex is a valid index into       *)
(* menuKeys whenever menuKeys is not empty, and each SELECT press made     *)
(* while no command output is displayed sets it to (previous index + 1)    *)
(* mod len(menuKeys).                                                      *)
(***************************************************************************)
SelectedIndexValid == Len(menuKeys) > 0 => selectedIndex \in 0..(Len(menuKeys) - 1)

SelectAdvanced ==
    /\ menuKeys = lastPress.pre.menuKeys
    /\ selectedIndex = (lastPress.pre.selectedIndex + 1) % Len(menuKeys)

C29_SelectCycles ==
    /\ SelectedIndexValid
    /\ (/\ lastPress.button = "select"
        /\ Len(lastPress.pre.menuKeys) > 0
        /\ ~lastPress.wasDisplaying) => SelectAdvanced

\* the statement without the condition on the output display
C29_EverySelectAdvances ==
    /\ SelectedIndexValid
    /\ (lastPress.button = "select" /\ Len(lastPress.pre.menuKeys) > 0) => SelectAdvanced

\* SELECT on the last option of a submenu wraps to the added "back" entry
C29_Witness ==
    /\ lastPress.button = "select"
    /\ ~lastPress.wasDisplaying
    /\ Len(menuStack) > 0
    /\ lastPress.pre.selectedIndex = Len(menuKeys) - 1
    /\ selectedIndex = 0
    /\ menuKeys[1] = "back"

(***************************************************************************)
(* Overflow specification: the wire carries up to MaxJunk bytes none of    *)
(* which begins a message, and a read returns any number of them           *)
(* (ReadAvailable reads into a 256-byte buffer).                           *)
(***************************************************************************)
\* the byte at i begins a message processMessageBuffer recognizes
BeginsMessage(seq, i) ==
    \/ seq[i] \in {EchoLead, CopyLeadU, CopyLeadC}
    \/ /\ i + 2 <= Len(seq)
       /\ seq[i] = FrameHdr0
       /\ seq[i + 1] = FrameHdr1
       /\ seq[i + 2] = FrameHdr2

Unrecognized(seq) == \A i \in 1..Len(seq) : ~BeginsMessage(seq, i)

\* 0xFF throughout, or with the frame's first byte 0x53 at every second or
\* third place
JunkWires ==
    {[i \in 1..n |-> IF i % k = 0 THEN FrameHdr0 ELSE 255] :
        n \in 0..MaxJunk, k \in {2, 3, MaxJunk + 2}}

InitOverflow ==
    /\ wire \in JunkWires
    /\ messageBuffer = <<>>
    /\ lastButtonState = EmptyMap
    /\ parsed = <<>>
    /\ emitted = <<>>
    /\ lastRead = NoRead
    /\ BusIdle
    /\ LedIdle
    /\ PortIdle
    /\ ExtIdle

NextOverflow ==
    \/ \E n \in 1..MaxJunk : ReadData(n)
    \/ ReadNothing

SpecOverflow == InitOverflow /\ [][NextOverflow]_vars

(***************************************************************************)
(* C30: feeding the serial engine more than 16 bytes none of which begins  *)
(* a recognized message clears the message buffer: after processing, the   *)
(* buffer is empty, for every such input length.                           *)
(***************************************************************************)
C30_OverflowClears ==
    (Len(lastRead.data) > MaxBuffer /\ Unrecognized(lastRead.pre \o lastRead.data))
    => messageBuffer = <<>>

\* what the code does hold to: the buffer never keeps more than 16 bytes, and
\* 18 bytes or more of unrecognized data clear it
OverflowBounded ==
    /\ Len(messageBuffer) <= MaxBuffer
    /\ (/\ Len(lastRead.pre) + Len(lastRead.data) > MaxBuffer + 1
        /\ Unrecognized(lastRead.pre \o lastRead.data)) => messageBuffer = <<>>

(***************************************************************************)
(* C31: in every reachable state of the serial polling task, including     *)
(* right after newly read bytes are appended, the message buffer holds at  *)
(* most 16 bytes.                                                          *)
(***************************************************************************)
\* the buffer as the last read left it before processMessageBuffer ran
AppendedBuffer == appendData(lastRead.pre, lastRead.data)

C31_BufferAtMost16 ==
    /\ Len(messageBuffer) <= MaxBuffer
    /\ Len(AppendedBuffer) <= MaxBuffer

(***************************************************************************)
(* processMessageBuffer pass by pass. loopStep is one pass of its loop     *)
(* body, entered with at least 4 bytes buffered; loopTrace lists the       *)
(* engine before the first pass and after each pass.                       *)
(***************************************************************************)
\* a pass that takes 5 bytes for a controller echo
loopStepWideEcho(e) ==
    IF e.buf[1] = FrameHdr0 /\ e.buf[2] = FrameHdr1 /\ e.buf[3] = FrameHdr2
    THEN [parseButtonState(e, e.buf[4]) EXCEPT !.buf = Drop(e.buf, FrameLen)]
    ELSE IF e.buf[1] = EchoLead
    THEN [e EXCEPT !.buf = Drop(e.buf, EchoLen + 2)]
    ELSE IF e.buf[1] \in {CopyLeadU, CopyLeadC}
    THEN [triggerButtonEvent(triggerButtonEvent(e, ButtonUSBCopy, TRUE),
                             ButtonUSBCopy, FALSE)
            EXCEPT !.buf = Drop(e.buf, CopyLen)]
    ELSE LET rest == Drop(e.buf, 1)
         IN [e EXCEPT !.buf = IF Len(rest) > MaxBuffer THEN <<>> ELSE rest]

\* a pass that tests the length before it looks at the leading byte
loopStepResetFirst(e) ==
    IF Len(e.buf) > MaxBuffer + 1
    THEN [e EXCEPT !.buf = <<>>]
    ELSE IF e.buf[1] = FrameHdr0 /\ e.buf[2] = FrameHdr1 /\ e.buf[3] = FrameHdr2
    THEN [parseButtonState(e, e.buf[4]) EXCEPT !.buf = Drop(e.buf, FrameLen)]
    ELSE IF e.buf[1] = EchoLead
    THEN [e EXCEPT !.buf = Drop(e.buf, EchoLen)]
    ELSE IF e.buf[1] \in {CopyLeadU, CopyLeadC}
    THEN [triggerButtonEvent(triggerButtonEvent(e, ButtonUSBCopy, TRUE),
                             ButtonUSBCopy, FALSE)
            EXCEPT !.buf = Drop(e.buf, CopyLen)]
    ELSE [e EXCEPT !.buf = Drop(e.buf, 1)]

loopStep(e) ==
    IF e.buf[1] = FrameHdr0 /\ e.buf[2] = FrameHdr1 /\ e.buf[3] = FrameHdr2
    THEN [parseButtonState(e, e.buf[4]) EXCEPT !.buf = Drop(e.buf, FrameLen)]
    ELSE IF e.buf[1] = EchoLead
    THEN [e EXCEPT !.buf = Drop(e.buf, EchoLen)]
    ELSE IF e.buf[1] \in {CopyLeadU, CopyLeadC}
    THEN [triggerButtonEvent(triggerButtonEvent(e, ButtonUSBCopy, TRUE),
                             ButtonUSBCopy, FALSE)
            EXCEPT !.buf = Drop(e.buf, CopyLen)]
    ELSE LET rest == Drop(e.buf, 1)
         IN [e EXCEPT !.buf = IF Len(rest) > MaxBuffer THEN <<>> ELSE rest]

\* the pass stops with the buffer as long as it was (never for loopStep)
Stuck(e) == Len(loopStep(e).buf) >= Len(e.buf)

RECURSIVE loopTrace(_)
loopTrace(e) ==
    IF Len(e.buf) < FrameLen \/ Stuck(e) THEN <<e>>
    ELSE <<e>> \o loopTrace(loopStep(e))

\* the engine as the last read found it, with the read bytes appended
ReadEngine ==
    [buf |-> AppendedBuffer, lbs |-> EmptyMap, emitted |-> <<>>, tasks |-> <<>>,
     parsed |-> <<>>]

\* the first thing frame extraction does with the appended buffer
firstExtraction ==
    IF Len(AppendedBuffer) < FrameLen THEN ReadEngine ELSE loopStep(ReadEngine)

\* the bytes at the front of seq form a complete button-state frame
FrameAt(seq, i) ==
    /\ i + 3 <= Len(seq)
    /\ seq[i] = FrameHdr0
    /\ seq[i + 1] = FrameHdr1
    /\ seq[i + 2] = FrameHdr2

\* the leading byte of the buffer is one no branch of the loop recognizes
UnknownLead(buf) ==
    /\ ~FrameAt(buf, 1)
    /\ buf[1] # EchoLead
    /\ buf[1] \notin {CopyLeadU, CopyLeadC}

(***************************************************************************)
(* Extraction specification: the wire carries up to two messages, or       *)
(* unrecognized bytes only, or a short lead followed by up to MaxFrames     *)
(* button frames; a read returns any number of the bytes not yet read.      *)
(***************************************************************************)
RECURSIVE FrameRun(_)
FrameRun(m) ==
    IF m = 0 THEN <<>>
    ELSE FrameRun(m - 1) \o ButtonFrame(IF m % 2 = 1 THEN 254 ELSE 255)

\* what precedes the frames: nothing, one or two unrecognized bytes, or a frame
\* and one unrecognized byte
OverrunLeads == {<<>>, <<255>>, <<255, 255>>, ButtonFrame(249) \o <<255>>}

OverrunWires == {lead \o FrameRun(m) : lead \in OverrunLeads, m \in 0..MaxFrames}

ExtractWires == WiresOf(2) \cup JunkWires \cup OverrunWires

InitExtract ==
    /\ wire \in ExtractWires
    /\ messageBuffer = <<>>
    /\ lastButtonState = EmptyMap
    /\ parsed = <<>>
    /\ emitted = <<>>
    /\ lastRead = NoRead
    /\ BusIdle
    /\ LedIdle
    /\ PortIdle
    /\ ExtIdle

NextExtract ==
    \/ \E n \in 1..Len(wire) : ReadData(n)
    \/ ReadNothing

SpecExtract == InitExtract /\ [][NextExtract]_vars

(***************************************************************************)
(* C32: whenever the first byte of the message buffer is 0x4D and at least *)
(* 3 bytes are available, frame extraction consumes exactly 3 bytes and    *)
(* emits no event, including when exactly 3 bytes are buffered.            *)
(***************************************************************************)
C32_EchoConsumesThree ==
    (Len(AppendedBuffer) >= EchoLen /\ AppendedBuffer[1] = EchoLead)
    => /\ firstExtraction.buf = Drop(AppendedBuffer, EchoLen)
       /\ firstExtraction.emitted = <<>>

(***************************************************************************)
(* C33: whenever the first byte of the message buffer is 0x55 or 0x43 and  *)
(* at least 2 bytes are available, frame extraction emits USB_COPY         *)
(* pressed=true and then USB_COPY pressed=false, and consumes exactly 2    *)
(* bytes.                                                                  *)
(***************************************************************************)
C33_CopyIndicatorPressRelease ==
    (Len(AppendedBuffer) >= CopyLen /\ AppendedBuffer[1] \in {CopyLeadU, CopyLeadC})
    => /\ firstExtraction.buf = Drop(AppendedBuffer, CopyLen)
       /\ firstExtraction.emitted = <<Event(ButtonUSBCopy, TRUE, "serial"),
                                      Event(ButtonUSBCopy, FALSE, "serial")>>

(***************************************************************************)
(* C36: the overflow reset of the message buffer is evaluated only right   *)
(* after an unrecognized leading byte has been dropped; when it fires      *)
(* (more than 16 bytes remain) every remaining byte is discarded,          *)
(* complete button-state frames included, which are then never decoded. A  *)
(* button-state frame at the front of the buffer is always decoded before  *)
(* any reset.                                                              *)
(***************************************************************************)
\* pass i of the trace took more than a message from the buffer
ResetAt(tr, i) == Len(tr[i].buf) - Len(tr[i + 1].buf) > FrameLen

C36_ResetOnlyAfterUnknownByte ==
    LET tr == loopTrace(ReadEngine)
        last == tr[Len(tr)]
    IN /\ last.buf = messageBuffer
       /\ Len(last.parsed) = Len(lastRead.calls)
       /\ \A i \in 1..(Len(tr) - 1) :
             /\ ResetAt(tr, i) =>
                   /\ UnknownLead(tr[i].buf)
                   /\ tr[i + 1].buf = <<>>
                   /\ tr[i + 1].parsed = tr[i].parsed
                   /\ i + 1 = Len(tr)
             /\ (UnknownLead(tr[i].buf) /\ Len(tr[i].buf) - 1 > MaxBuffer) =>
                   ResetAt(tr, i)
             /\ FrameAt(tr[i].buf, 1) =>
                   /\ tr[i + 1].buf = Drop(tr[i].buf, FrameLen)
                   /\ Len(tr[i + 1].parsed) = Len(tr[i].parsed) + 1

\* a frame at the front of 25 bytes is decoded, the byte after it is dropped and
\* the frames behind that byte are discarded undecoded
C36_Witness ==
    /\ Len(AppendedBuffer) > FrameLen + 1 + MaxBuffer
    /\ FrameAt(AppendedBuffer, 1)
    /\ UnknownLead(Drop(AppendedBuffer, FrameLen))
    /\ FrameAt(AppendedBuffer, FrameLen + 2)
    /\ Len(lastRead.calls) = 1
    /\ messageBuffer = <<>>

(***************************************************************************)
(* C39: processMessageBuffer terminates for every buffer content: each     *)
(* loop iteration either removes between 1 and 4 bytes from the front or   *)
(* clears the buffer, and on return fewer than 4 bytes remain.             *)
(***************************************************************************)
C39_ExtractionTerminates ==
    LET tr == loopTrace(ReadEngine)
        last == tr[Len(tr)]
    IN /\ last.buf = messageBuffer
       /\ Len(messageBuffer) < FrameLen
       /\ Len(tr) <= Len(AppendedBuffer) + 1
       /\ \A i \in 1..(Len(tr) - 1) :
             \/ /\ Len(tr[i].buf) - Len(tr[i + 1].buf) \in 1..FrameLen
                /\ tr[i + 1].buf = Drop(tr[i].buf, Len(tr[i].buf) - Len(tr[i + 1].buf))
             \/ tr[i + 1].buf = <<>>

\* an unrecognized byte, then three frames: four iterations, two of the kinds
C39_Witness ==
    /\ Len(AppendedBuffer) = 1 + 3 * FrameLen
    /\ UnknownLead(AppendedBuffer)
    /\ Len(loopTrace(ReadEngine)) = 5
    /\ Len(lastRead.calls) = 3
    /\ messageBuffer = <<>>

(***************************************************************************)
(* C37: a button state change decoded from a serial frame while no handler *)
(* is registered still updates the last-known state map, so the change is  *)
(* dropped for good: registering a handler afterwards never causes that    *)
(* change to be delivered, and no event for that button is delivered until *)
(* its decoded value changes again.                                        *)
(***************************************************************************)
SerialOnly(seq) == SelectSeq(seq, LAMBDA x : x.src = "serial")

\* a step as the claim describes it: dispatches of serial events are created
\* only by the read that emits them and only with a handler registered; every
\* decoded frame is recorded in the map, handler or not; an event is emitted
\* only for a button whose decoded value differs from the recorded one
C37_Step ==
    LET newEvents == SerialOnly(SubSeq(emitted', Len(emitted) + 1, Len(emitted')))
        newTasks == SerialOnly(SubSeq(tasks', Len(tasks) + 1, Len(tasks')))
        calls == lastRead'.calls
    IN /\ Len(tasks') >= Len(tasks)
       /\ Len(SerialOnly(tasks')) = Len(SerialOnly(tasks)) + Len(newTasks)
       /\ Len(newTasks) = IF dcHandlerSet THEN Len(newEvents) ELSE 0
       /\ \A k \in 1..Len(newTasks) :
             /\ newTasks[k].button = newEvents[k].button
             /\ newTasks[k].pressed = newEvents[k].pressed
       /\ (parsed' # parsed /\ Len(calls) = 1) =>
             /\ \A b \in Buttons : lastButtonState'[b] = Decoded(calls[1].state)[b]
             /\ \A k \in 1..Len(calls[1].events) :
                   LET ev == calls[1].events[k]
                   IN ev.button \notin DOMAIN lastButtonState
                      \/ lastButtonState[ev.button] # ev.pressed
             /\ \A b \in Buttons :
                   (b \in DOMAIN lastButtonState
                        /\ lastButtonState[b] = Decoded(calls[1].state)[b])
                   => \A k \in 1..Len(calls[1].events) : calls[1].events[k].button # b

C37_DroppedForGood == [][C37_Step]_vars

\* ENTER held was decoded with no handler registered; the handler was then
\* registered and the same state decoded again: nothing was ever dispatched
C37_Witness ==
    /\ dcHandlerSet
    /\ Len(parsed) = 2
    /\ parsed[1].state = 254
    /\ parsed[1].events # <<>>
    /\ parsed[2].state = 254
    /\ parsed[2].events = <<>>
    /\ SerialOnly(tasks) = <<>>
    /\ lastButtonState[ButtonEnter] = TRUE

(***************************************************************************)
(* The I/O-port poller and its callbacks alone: nothing arrives on the     *)
(* serial line.                                                            *)
(***************************************************************************)
InitHw ==
    /\ InitBus
    /\ wire = <<>>

NextHw ==
    \/ ConstructSystem
    \/ \E h \in Handlers : SetButtonHandler(h)
    \/ HandlerStoreVisible
    \/ \E pressed \in BOOLEAN : IoTick(pressed)
    \/ \E i \in 1..Len(tasks), fail \in BusFailPoints, wfail \in WriteFails :
            RunHwPress(i, fail, wfail)
    \/ \E i \in 1..Len(tasks) : RunHwRelease(i)

SpecHw == InitHw /\ [][NextHw]_vars

(***************************************************************************)
(* C38: with a handler registered, the I/O-port path produces events only  *)
(* from rising edges of the raw sample: each released-to-pressed edge      *)
(* delivers USB_COPY pressed=true followed, from the same task, by         *)
(* USB_COPY pressed=false whether or not the button is still held; a       *)
(* physical release produces no event of its own, and a button held        *)
(* across any number of polls produces exactly one press/release pair.     *)
(***************************************************************************)
\* the deliveries the callback i made, in their order
DeliveriesOf(i) == SelectSeq(delivered, LAMBDA d : d.task = i)


\* what each callback has delivered at each of its positions
C38_Pairs ==
    /\ \A k \in 1..Len(delivered) :
          /\ delivered[k].src = "hw"
          /\ delivered[k].button = ButtonUSBCopy
          /\ tasks[delivered[k].task].src = "hw"
    /\ \A i \in 1..Len(tasks) :
          LET ds == DeliveriesOf(i)
              pc == tasks[i].pc
          IN /\ Len(ds) <= 2
             /\ Len(ds) >= 1 => ds[1].pressed
             /\ Len(ds) = 2 => ~ds[2].pressed
             /\ pc \in {"ready", "dropped"} => ds = <<>>
             /\ pc = "sleep" => Len(ds) = 1
             /\ pc = "done" => Len(ds) = 2
    /\ HwPresses = Len(emitted)

\* callbacks start on rising edges only; a release or a held button starts none
\* and delivers nothing
C38_Edges ==
    /\ Len(tasks') > Len(tasks) =>
          /\ ~lastPressed
          /\ lastPressed'
          /\ Len(tasks') = Len(tasks) + 1
    /\ (~lastPressed /\ lastPressed') => Len(tasks') = Len(tasks) + 1
    /\ (lastPressed /\ ~lastPressed') =>
          /\ tasks' = tasks
          /\ delivered' = delivered
          /\ emitted' = emitted

C38_RisingEdgePairs == [] C38_Pairs /\ [][C38_Edges]_vars

\* the button was pressed, held and let go; the handler got one press and one
\* release, in that order, and the poller saw the button released since
C38_Witness ==
    /\ scHandler # "nil"
    /\ ~lastPressed
    /\ Len(tasks) = 1
    /\ tasks[1].pc = "done"
    /\ Len(delivered) = 2
    /\ delivered[1].pressed
    /\ ~delivered[2].pressed

(***************************************************************************)
(* LED query specification: from all LEDs off, SetLED for every LED of the  *)
(* panel, with its return value, and the query of the LED states; at most  *)
(* MaxLit LEDs are lit at once.                                            *)
(***************************************************************************)
LitIn(rg) ==
    {l \in PanelLEDs : Bit(rg[portOf(l).register], portOf(l).leds[l]) = 0}

InitLedQuery ==
    /\ InitLED
    /\ regs[OtherRegister] = 255

NextLedQuery ==
    \/ \E led \in PanelLEDs, on \in BOOLEAN, fail \in FailPoints :
            /\ ReturnSetLED(led, on, fail)
            /\ Cardinality(LitIn(regs')) <= MaxLit
    \/ \E failGroup \in 0..3, failAt \in 1..2 : CallGetLEDStates(failGroup, failAt)

SpecLedQuery == InitLedQuery /\ [][NextLedQuery]_vars

(***************************************************************************)
(* C40: with port permission held, no I/O error and no concurrent LED      *)
(* call, after SetLED(led, on) returns GetLEDStates reports led as on      *)
(* (active-low: on iff the LED's register bit is 0), for every LED and     *)
(* both values; and repeating the same SetLED call performs no further     *)
(* register write.                                                         *)
(***************************************************************************)
\* in every state the query reports each LED as its register bit has it, and a
\* SetLED call asking for the state an LED is in writes nothing
C40_Query ==
    portPerms =>
        \A l \in PanelLEDs :
            /\ GetLEDStates(0, 0).states[l] = LedOn(l)
            /\ SetLED(l, LedOn(l), 0).hw.ok
            /\ ~SetLED(l, LedOn(l), 0).hw.wrote
            /\ SetLED(l, LedOn(l), 0).hw.regs = regs

\* a SetLED call that meets no I/O error leaves the LED in the state asked for
C40_Step ==
    \A led \in PanelLEDs, on \in BOOLEAN :
        (portPerms /\ lastLedCall'.leds = {led} /\ ReturnSetLED(led, on, 0)) =>
            /\ ~ledReturn'.err
            /\ on <=> LedOnIn(regs', led)

C40_SetThenGet == [] C40_Query /\ [][C40_Step]_vars

\* from all LEDs off, the USB LED was turned on, and a SetLED(USB, on) that
\* followed wrote nothing; the query reports it on
C40_Witness ==
    /\ portPerms
    /\ regs[OtherRegister] = 255
    /\ ledReturn.op = "set"
    /\ ~ledReturn.err
    /\ lastLedCall.leds = {USB}
    /\ ~lastLedCall.wrote
    /\ LedOn(USB)
    /\ GetLEDStates(0, 0).states[USB]

(***************************************************************************)
(* I/O port permissions of the process.  The LED controller and the button  *)
(* monitor each ask the kernel for their ports with ioperm and each keeps   *)
(* its own record of the grant (portPerms, acquired); the kernel keeps one  *)
(* permission bitmap for the caller, here the set of permitted addresses.   *)
(***************************************************************************)
portCount == 2
IOPort == 2565

\* the addresses each component asks for
LedPorts == regPort..(regPort + portCount - 1)
MonitorPorts == {IOPort}

\* ioperm(from, num, turn_on) on the permission bitmap
ioperm(bitmap, from, num, on) ==
    IF on THEN bitmap \cup (from..(from + num - 1))
    ELSE bitmap \ (from..(from + num - 1))

\* NewSystemController: the LED controller asks first, then the monitor
ledGranted == portPerms \/ Occurrences(releases, "led") > 0
monitorGranted == mon # NoMonitor
constructedBitmap ==
    LET afterLed == IF ledGranted THEN ioperm({}, regPort, portCount, TRUE) ELSE {}
    IN IF monitorGranted THEN ioperm(afterLed, IOPort, 1, TRUE) ELSE afterLed

\* the release calls that took effect: IOPortAccess.Close clears acquired only
\* when its call succeeded, LEDController.Close does not look at the result
monitorReleased == monitorGranted /\ ~mon.acquired
ledReleased == Occurrences(releases, "led") > 0

\* the addresses the process may access now; the calls that turn permissions
\* off all come after those that turn them on, and their order does not matter
permitted ==
    LET afterMonitor == IF monitorReleased THEN ioperm(constructedBitmap, IOPort, 1, FALSE)
                        ELSE constructedBitmap
    IN IF ledReleased THEN ioperm(afterMonitor, regPort, portCount, FALSE)
       ELSE afterMonitor

\* the addresses a component records as held
ledHolds == IF portPerms THEN LedPorts ELSE {}
monitorHolds == IF mon.acquired THEN MonitorPorts ELSE {}

(***************************************************************************)
(* C34: each I/O port address is owned by at most one component at a time,  *)
(* and a release by one component never revokes a permission that another   *)
(* component still records as held: what the LED controller and the button  *)
(* monitor hold is disjoint, and everything either holds is permitted.      *)
(***************************************************************************)
C34_PortsExclusive ==
    /\ ledHolds \cap monitorHolds = {}
    /\ ledHolds \subseteq permitted
    /\ monitorHolds \subseteq permitted

\* C34, the release half alone: everything a component records as held is
\* still permitted, whatever the other component has released
C34_HeldIsPermitted ==
    /\ ledHolds \subseteq permitted
    /\ monitorHolds \subseteq permitted

(***************************************************************************)
(* Button events in flight.  triggerButtonEvent and MonitorButtonPresses    *)
(* start one goroutine per event and keep no count of them: a task is in    *)
(* flight from its go statement until its handler call has returned.        *)
(***************************************************************************)
PendingEvents == {i \in 1..Len(tasks) : tasks[i].pc \in {"ready", "sleep", "blocked"}}
BeingHandled == {i \in 1..Len(tasks) : tasks[i].pc = "blocked"}

(***************************************************************************)
(* C35: the number of button events pending delivery or being handled is    *)
(* bounded by a fixed constant, also when the handler never returns: some   *)
(* bound below the number of dispatches explored is never exceeded.         *)
(***************************************************************************)
C35_PendingBounded == \E bound \in 0..(MaxTasks - 1) : Cardinality(PendingEvents) <= bound

\* C35 for the handler calls that never return alone
C35_HandlingBounded == \E bound \in 0..(MaxTasks - 1) : Cardinality(BeingHandled) <= bound

====
